---- MODULE Spec2Model ----
(***************************************************************************)
(* A model of the chess-r board engine: the bitboard-backed BoardState,    *)
(* FEN import and export, pseudolegal and legal move generation, and the   *)
(* make_move / unmake_move mutation protocol.                              *)
(*                                                                         *)
(* Representation.  A Bitboard (a u64 read LSB-first) is the set of the    *)
(* indices of its set bits, so | is \cup, & is \cap and !x is              *)
(* Squares \ x.  castling_rights (a u8 of which only bits 0..3 are ever    *)
(* written) is the set of its set bit indices.  Option<T> is a sequence    *)
(* of length 0 (None) or 1 (Some).  A String is a sequence of one-         *)
(* character strings.  The precomputed tables that every BoardState        *)
(* carries (edge_compute, king_compute, knight_compute,                    *)
(* pawn_attack_compute, pawn_push_compute) are the same in every           *)
(* BoardState and are constants of the model rather than record fields.    *)
(***************************************************************************)
EXTENDS Integers, Sequences, FiniteSets, TLC

\* ---------------------------------------------------------------- enums
\* bitboard.rs, enum Team
White == 0
Black == 1
Both == 2
Red == 3
TeamNone == 4

\* bitboard.rs, enum PieceType
PieceNone == 0
Pawn == 1
Rook == 2
Bishop == 3
Knight == 4
Queen == 5
King == 6

PieceTypes == 0..6
Squares == 0..63

\* Option<T>
None == << >>
Some(x) == << x >>
is_some(o) == Len(o) = 1
unwrap(o) == o[1]

\* Team::opponent
opponent(team) == IF team = Black THEN White ELSE Black

\* Rust's % on signed integers truncates toward zero.
RemT(a, b) == IF a >= 0 THEN a % b ELSE -((-a) % b)
abs_diff(a, b) == IF a >= b THEN a - b ELSE b - a
signum(a) == IF a > 0 THEN 1 ELSE IF a < 0 THEN -1 ELSE 0
Min(a, b) == IF a <= b THEN a ELSE b
Max(a, b) == IF a >= b THEN a ELSE b

\* ------------------------------------------------------------- bitboard
\* Bitboard::set_bit: a no-op when the index is not below 64 (a negative
\* i32 cast to usize is far above 64); otherwise the bit is SET TO value.
set_bit(bb, index, value) ==
    IF index \in Squares
    THEN IF value THEN bb \cup {index} ELSE bb \ {index}
    ELSE bb

\* Bitboard::get_bit
get_bit(bb, index) == index \in Squares /\ index \in bb

\* A run of set_bit calls, in order; ops is a sequence of <<index, value>>.
\* A bit is left as the last call on its index sets it, a call on an index
\* that is not below 64 being a no-op.
SetBits(bb, ops) ==
    { index \in bb \cup ({ ops[k][1] : k \in 1..Len(ops) } \cap Squares) :
        LET calls == { k \in 1..Len(ops) :
                         ops[k][1] = index /\ index \in Squares }
        IN  IF calls = {} THEN TRUE
            ELSE ops[CHOOSE k \in calls : \A j \in calls : j <= k][2] }

\* Bitboard::bit_idx_to_al_notation
FileLetters == << "a", "b", "c", "d", "e", "f", "g", "h" >>
DigitChars == << "0", "1", "2", "3", "4", "5", "6", "7", "8", "9" >>

RECURSIVE ToDigits(_)
ToDigits(n) ==
    IF n < 10 THEN << DigitChars[n + 1] >>
    ELSE ToDigits(n \div 10) \o << DigitChars[(n % 10) + 1] >>

\* i64's Display
IntToString(n) == IF n < 0 THEN << "-" >> \o ToDigits(-n) ELSE ToDigits(n)

\* bit_idx_to_al_notation with the rank and the file taken the wrong way
\* round: the file from bit / 8, the rank from bit % 8.
bit_idx_to_al_notation_swapped(bit) ==
    IF bit \notin Squares THEN None
    ELSE Some(<< FileLetters[(bit \div 8) + 1] >> \o IntToString((bit % 8) + 1))

bit_idx_to_al_notation(bit) ==
    IF bit \notin Squares THEN None
    ELSE Some(<< FileLetters[(bit % 8) + 1] >> \o IntToString((bit \div 8) + 1))

\* char::to_digit(10)
to_digit(c) ==
    IF \E d \in 1..10 : DigitChars[d] = c
    THEN Some((CHOOSE d \in 1..10 : DigitChars[d] = c) - 1)
    ELSE None

\* A u32 too wide for one number of the model, as its two 16-bit halves.
HALF_RANGE == 65536

u32(n) == [ hi |-> n \div HALF_RANGE, lo |-> n % HALF_RANGE ]

\* a - b in u32 for small a and b: wraps below zero.
u32_wrapping_sub(a, b) ==
    IF a >= b THEN u32(a - b)
    ELSE [ hi |-> HALF_RANGE - 1, lo |-> HALF_RANGE - (b - a) ]

\* x * k and x + k in u32 for a small k: the bits above 32 are dropped.
u32_wrapping_mul(x, k) ==
    [ hi |-> ((x.hi * k) + ((x.lo * k) \div HALF_RANGE)) % HALF_RANGE,
      lo |-> (x.lo * k) % HALF_RANGE ]

u32_wrapping_add(x, k) ==
    [ hi |-> (x.hi + ((x.lo + k) \div HALF_RANGE)) % HALF_RANGE,
      lo |-> (x.lo + k) % HALF_RANGE ]

\* The outcomes of a call that returns or panics.
Returned(result) == [ kind |-> "Returned", result |-> result ]
Panicked == [ kind |-> "Panic", result |-> None ]

\* Bitboard::al_notation_to_bit_idx on any string, the index returned held
\* as a u32: split[0] and split[1] panic when the string is too short, and
\* rank_id - 1 overflows for the digit 0, a panic where overflow checks are
\* on and a wrap where they are off.  The result is the set of the outcomes
\* the builds give.
al_notation_rank(rank, file_id) ==
    IF ~is_some(rank) THEN { Returned(None) }
    ELSE (IF unwrap(rank) < 1 THEN { Panicked } ELSE {})
         \cup { Returned(Some(u32_wrapping_add(
                    u32_wrapping_mul(u32_wrapping_sub(unwrap(rank), 1), 8),
                    file_id))) }

al_notation_to_bit_idx(notation) ==
    IF Len(notation) = 0 THEN { Panicked }
    ELSE IF ~\E f \in 1..8 : FileLetters[f] = notation[1]
    THEN { Returned(None) }
    ELSE IF Len(notation) < 2 THEN { Panicked }
    ELSE al_notation_rank(to_digit(notation[2]),
                          (CHOOSE f \in 1..8 : FileLetters[f] = notation[1]) - 1)

\* BitboardIterator: into_iter and next, which gives the new iterator and
\* the item returned.
into_iter(bitboard) == [ head |-> 0, board |-> bitboard ]

iterator_next(iterator) ==
    [ iterator |-> [iterator EXCEPT !.head = iterator.head + 1],
      item |-> IF iterator.head + 1 >= 64 THEN None
               ELSE Some(get_bit(iterator.board, iterator.head + 1)) ]

\* ------------------------------------------------------ precomputed tables
\* compute_edges with the two left-hand diagonals in the order its header
\* comment gives them (6 bottom-left, 7 top-left).
compute_edges_swapped ==
    [square_pos \in Squares |->
        LET rank == square_pos \div 8
            file == square_pos % 8
            top_dist == 7 - rank
            bottom_dist == rank
            left_dist == file
            right_dist == 7 - file
        IN  << top_dist, bottom_dist, right_dist, left_dist,
               Min(top_dist, right_dist), Min(bottom_dist, right_dist),
               Min(bottom_dist, left_dist), Min(top_dist, left_dist) >>]

\* board.rs compute_edges: [top, bottom, right, left, top-right,
\* bottom-right, top-left, bottom-left] for every square; direction d of
\* the source is component d + 1 here.
compute_edges ==
    [square_pos \in Squares |->
        LET rank == square_pos \div 8
            file == square_pos % 8
            top_dist == 7 - rank
            bottom_dist == rank
            left_dist == file
            right_dist == 7 - file
        IN  << top_dist, bottom_dist, right_dist, left_dist,
               Min(top_dist, right_dist), Min(bottom_dist, right_dist),
               Min(top_dist, left_dist), Min(bottom_dist, left_dist) >>]

edge_compute == compute_edges

\* move.rs DIRECTION_OFFSETS
DIRECTION_OFFSETS == << 8, -8, 1, -1, 9, -7, 7, -9 >>

\* move.rs precalc_pawn_attack
precalc_pawn_attack ==
    [index \in {White, Black} |->
        [square_target \in Squares |->
            LET rank_advance_diff == IF index = 0 THEN 8 ELSE -8
                target == square_target + rank_advance_diff - signum(rank_advance_diff)
                target2 == square_target + rank_advance_diff + signum(rank_advance_diff)
                current_file == RemT(square_target, 8)
                target_file == RemT(target, 8)
                target2_file == RemT(target2, 8)
                is_file_jumping == target < 0 \/ abs_diff(target_file, current_file) > 3
                is_file_jumping2 == target2 < 0 \/ abs_diff(target2_file, current_file) > 3
            IN  SetBits({}, << << target, ~is_file_jumping >>,
                               << target2, ~is_file_jumping2 >> >>)]]

\* move.rs precalc_pawn_push
precalc_pawn_push ==
    [index \in {White, Black} |->
        [square_target \in Squares |->
            LET rank_advance_diff == IF index = 0 THEN 8 ELSE -8
                is_ranked_out == square_target \div 8 = 7 \/ square_target \div 8 = 0
                is_at_start == IF index = 0
                               THEN square_target \div 8 = 1
                               ELSE square_target \div 8 = 6
            IN  SetBits({}, << << square_target + rank_advance_diff, ~is_ranked_out >>,
                               << square_target + rank_advance_diff + rank_advance_diff,
                                  is_at_start >> >>)]]

\* move.rs precalc_knight_attack
knight_moves == << 10, 17, -10, -17, 15, -15, 6, -6 >>

\* precalc_knight_attack without the test of the target's file.
precalc_knight_attack_unguarded ==
    [square_target \in Squares |->
        SetBits({}, [k \in 1..8 |->
            << square_target + knight_moves[k], TRUE >>])]

precalc_knight_attack ==
    [square_target \in Squares |->
        SetBits({}, [k \in 1..8 |->
            LET target == square_target + knight_moves[k]
                target_file == RemT(target, 8)
                valid_move == abs_diff(target_file, square_target % 8) <= 3
            IN  << target, valid_move >>])]

\* move.rs precalc_king_attack.  is_h_file is computed as
\* square_target % (rank_advance_diff.abs() - 1) == 0, that is % 7.
precalc_king_attack ==
    [index \in {White, Black} |->
        [square_target \in Squares |->
            LET rank_advance_diff == IF index = 0 THEN 8 ELSE -8
                is_a_file == square_target % 8 = 0
                is_h_file == square_target % 7 = 0
            IN  SetBits({}, <<
                    << square_target + rank_advance_diff - 1, ~is_a_file >>,
                    << square_target + rank_advance_diff + 1, ~is_h_file >>,
                    << square_target - 1, ~is_a_file >>,
                    << square_target + 1, ~is_h_file >>,
                    << square_target + rank_advance_diff, TRUE >>,
                    << square_target - rank_advance_diff, TRUE >>,
                    << square_target - rank_advance_diff - 1, ~is_a_file >>,
                    << square_target - rank_advance_diff + 1, ~is_h_file >> >>)]]

king_compute == precalc_king_attack
knight_compute == precalc_knight_attack
pawn_attack_compute == precalc_pawn_attack
pawn_push_compute == precalc_pawn_push

\* ------------------------------------------------------------ BoardState
EmptyPieces == [t \in {White, Black, Both} |-> [p \in PieceTypes |-> {}]]

\* impl Default for BoardState.  en_passant_square: Option<usize> is held as
\* None or Some(u32(square)).
DefaultBoard ==
    [ board_pieces |-> EmptyPieces,
      castling_rights |-> {},
      fifty_move_clock |-> 0,
      ply_clock |-> 0,
      turn_clock |-> 1,
      en_passant_square |-> None,
      en_passant_turn |-> None,
      active_team_checkmate |-> FALSE,
      piece_list |-> [s \in Squares |-> PieceNone],
      capture_bitboard |-> [t \in {White, Black} |-> {}],
      active_team |-> White ]

\* BoardState::get_team_coverage
get_team_coverage(board, team) ==
    UNION { board.board_pieces[team][p] : p \in PieceTypes }

\* BoardState::get_square_team
get_square_team(board, square_idx) ==
    IF square_idx \in get_team_coverage(board, White) THEN White
    ELSE IF square_idx \in get_team_coverage(board, Black) THEN Black
    ELSE TeamNone

\* struct Piece
MkPiece(piece_type, team, position) ==
    [ piece_type |-> piece_type, team |-> team, position |-> position ]

\* BoardState::get_piece_at_pos
get_piece_at_pos(board, pos) ==
    IF board.piece_list[pos] # PieceNone
    THEN Some(MkPiece(board.piece_list[pos], get_square_team(board, pos), pos))
    ELSE None

\* struct Move
MkMove(start, target, captures, is_pawn_double, is_castle) ==
    [ start |-> start, target |-> target, captures |-> captures,
      is_pawn_double |-> is_pawn_double, is_castle |-> is_castle ]

\* Move::default()
DefaultMove == MkMove(0, 0, None, FALSE, FALSE)

\* BoardState::is_team_checked
is_team_checked(board, team) ==
    LET enemy_capture_bitboard ==
            board.capture_bitboard[White] \cup board.capture_bitboard[Black]
        in_check == enemy_capture_bitboard \cap board.board_pieces[team][King]
    IN  in_check # {}

\* BoardState::opponent_attacking_square
opponent_attacking_square(board, pos) ==
    LET enemy_capture_bitboard ==
            (board.capture_bitboard[White] \cup board.capture_bitboard[Black])
                \ board.capture_bitboard[board.active_team]
    IN  pos \in enemy_capture_bitboard

\* ------------------------------------------------------- move generation
SquareSeq == [i \in 1..64 |-> i - 1]

\* The indices of the set bits of a bitboard, ascending (iter_ones).
iter_ones(bitboard) == SelectSeq(SquareSeq, LAMBDA i : i \in bitboard)

\* move.rs is_square_attackable
is_square_attackable(board, piece, possible_target) ==
    IF board.piece_list[possible_target] = PieceNone THEN TRUE
    ELSE get_square_team(board, possible_target) # piece.team

\* move.rs psuedolegalize_move, folded over the calls a generator makes:
\* attempts is a sequence of [cmove, condition].  Each call pushes the move
\* when the condition holds and sets the target's bit TO the condition.
psuedolegalize(attempts) ==
    [ bitboard |-> SetBits({}, [i \in 1..Len(attempts) |->
                        << attempts[i].cmove.target, attempts[i].condition >>]),
      moves |-> LET kept == SelectSeq(attempts, LAMBDA a : a.condition)
                IN  [i \in 1..Len(kept) |-> kept[i].cmove],
      overflow |-> FALSE ]

\* The 'raycast_check loop without the break at an occupied square.
RECURSIVE raycast_check_through(_, _, _, _, _)
raycast_check_through(board, piece, index, raycast, indexed_direction) ==
    IF raycast > indexed_direction THEN << >>
    ELSE LET possible_target ==
                 piece.position + (raycast * DIRECTION_OFFSETS[index + 1])
         IN  IF possible_target \notin Squares THEN << >>
             ELSE << [ cmove |-> MkMove(piece.position, possible_target,
                                        get_piece_at_pos(board, possible_target),
                                        FALSE, FALSE),
                       condition |->
                           is_square_attackable(board, piece, possible_target) ] >>
                  \o raycast_check_through(board, piece, index, raycast + 1,
                                           indexed_direction)

\* move.rs compute_slider, the 'raycast_check loop of one direction.
RECURSIVE raycast_check(_, _, _, _, _)
raycast_check(board, piece, index, raycast, indexed_direction) ==
    IF raycast > indexed_direction THEN << >>
    ELSE LET possible_target ==
                 piece.position + (raycast * DIRECTION_OFFSETS[index + 1])
         IN  IF possible_target \notin Squares THEN << >>
             ELSE LET resulting_move ==
                          MkMove(piece.position, possible_target,
                                 get_piece_at_pos(board, possible_target),
                                 FALSE, FALSE)
                      attempt ==
                          [ cmove |-> resulting_move,
                            condition |->
                                is_square_attackable(board, piece, possible_target) ]
                  IN  IF board.piece_list[possible_target] # PieceNone
                      THEN << attempt >>
                      ELSE << attempt >> \o
                           raycast_check(board, piece, index, raycast + 1,
                                         indexed_direction)

\* move.rs compute_slider, the loop over the directions index_start..index_end-1.
RECURSIVE slider_directions(_, _, _, _)
slider_directions(board, piece, index, index_end) ==
    IF index >= index_end THEN << >>
    ELSE LET edge == edge_compute[piece.position][index + 1]
             indexed_direction == IF piece.piece_type = King THEN 1 ELSE edge
         IN  (IF edge >= 1
              THEN raycast_check(board, piece, index, 1, indexed_direction)
              ELSE << >>)
             \o slider_directions(board, piece, index + 1, index_end)

\* move.rs compute_slider
compute_slider(board, piece) ==
    LET index_start == IF piece.piece_type = Bishop THEN 4 ELSE 0
        index_end == IF piece.piece_type = Rook THEN 4 ELSE 8
    IN  psuedolegalize(slider_directions(board, piece, index_start, index_end))

\* The match on piece.team that picks a pawn's distance to its far edge.
far_edge_dist(piece) ==
    IF piece.team = Black THEN edge_compute[piece.position][2]
    ELSE edge_compute[piece.position][1]

\* move.rs bitboard_to_movelist
bitboard_to_movelist(board, piece, bitboard) ==
    LET ones == iter_ones(bitboard)
        far_edge_dist_for_pawns == far_edge_dist(piece)
    IN  [i \in 1..Len(ones) |->
            MkMove(piece.position, ones[i], get_piece_at_pos(board, ones[i]),
                   far_edge_dist_for_pawns = 6
                       /\ piece.piece_type = Pawn
                       /\ abs_diff(ones[i], piece.position) = 16,
                   FALSE)]

\* move.rs get_precomputed_king
get_precomputed_king(board, piece) ==
    LET team_cov == get_team_coverage(board, piece.team)
        king_bit == king_compute[piece.team][piece.position]
        bitboard == king_bit \ team_cov
    IN  [ bitboard |-> bitboard,
          moves |-> bitboard_to_movelist(board, piece, bitboard),
          overflow |-> FALSE ]

\* move.rs get_precomputed_knight
get_precomputed_knight(board, piece) ==
    LET team_cov == get_team_coverage(board, piece.team)
        knight_bits == knight_compute[piece.position] \ team_cov
    IN  [ bitboard |-> knight_bits,
          moves |-> bitboard_to_movelist(board, piece, knight_bits),
          overflow |-> FALSE ]

\* move.rs get_precomputed_pawn.  pawn_step_1 and pawn_step_2 are usize
\* subtractions for Black, computed for every pawn: below square 8 (16)
\* they overflow, where a build with overflow checks panics and a build
\* without them wraps to an index far above 63.  The wrapped value is used
\* only on the starting rank, where it cannot arise.  An entry of a move set
\* is [bitboard, moves, overflow]: overflow tells that the build with
\* overflow checks has panicked in computing it, and bitboard and moves are
\* what the build without them returns.
pawn_step_overflows(piece) == piece.team = Black /\ piece.position < 16

\* get_precomputed_pawn with the capture compute_pawn describes, onto a pawn
\* standing directly beside, offered without looking at the en passant window.
get_precomputed_pawn_en_passant(board, piece) ==
    LET team_cov == get_team_coverage(board, piece.team)
                        \cup get_team_coverage(board, opponent(piece.team))
        enemy_cov == get_team_coverage(board, opponent(piece.team))
        push_bit == pawn_push_compute[piece.team][piece.position] \ team_cov
        push_attack == pawn_attack_compute[piece.team][piece.position] \cap enemy_cov
        beside == { a \in { piece.position - 1, piece.position + 1 } \cap enemy_cov :
                      board.piece_list[a] = Pawn }
        pawn_bits == push_attack \cup push_bit \cup beside
    IN  [ bitboard |-> pawn_bits,
          moves |-> bitboard_to_movelist(board, piece, pawn_bits),
          overflow |-> pawn_step_overflows(piece) ]

get_precomputed_pawn(board, piece) ==
    LET team_cov == get_team_coverage(board, piece.team)
                        \cup get_team_coverage(board, opponent(piece.team))
        enemy_cov == get_team_coverage(board, opponent(piece.team))
        pawn_step_1 == IF piece.team = Black THEN piece.position - 8
                       ELSE piece.position + 8
        pawn_step_2 == IF piece.team = Black THEN piece.position - 16
                       ELSE piece.position + 16
        far_edge_dist_for_pawns == far_edge_dist(piece)
        table_bit == pawn_push_compute[piece.team][piece.position]
        push_bit0 == IF far_edge_dist_for_pawns = 6 /\ piece.piece_type = Pawn
                     THEN LET slider_block_state == get_bit(table_bit, pawn_step_1)
                          IN  set_bit(table_bit, pawn_step_2, slider_block_state)
                     ELSE table_bit
        push_bit == push_bit0 \ team_cov
        push_attack == pawn_attack_compute[piece.team][piece.position] \cap enemy_cov
        pawn_bits == push_attack \cup push_bit
    IN  [ bitboard |-> pawn_bits,
          moves |-> bitboard_to_movelist(board, piece, pawn_bits),
          overflow |-> pawn_step_overflows(piece) ]

\* get_psuedolegal_moves, the closure run for every square: the entry of one
\* square before castling is added.
default_push == [ bitboard |-> {}, moves |-> << DefaultMove >>, overflow |-> FALSE ]

square_moves(board, index) ==
    LET piece_type == board.piece_list[index]
        team == get_square_team(board, index)
    IN  IF team # TeamNone
        THEN LET piece_obj == MkPiece(piece_type, team, index)
             IN  CASE piece_type \in {Bishop, Rook, Queen} ->
                          compute_slider(board, piece_obj)
                   [] piece_type = King -> get_precomputed_king(board, piece_obj)
                   [] piece_type = Knight -> get_precomputed_knight(board, piece_obj)
                   [] piece_type = Pawn -> get_precomputed_pawn(board, piece_obj)
                   [] OTHER -> default_push
        ELSE default_push

\* get_psuedolegal_moves, one pass of the "Add castling" loop: what the
\* pass for castling_move (0 = K, 1 = Q, 2 = k, 3 = q) does to the entry of
\* its king square.
castle_step(board, entry, castling_move) ==
    LET white_check == is_team_checked(board, White)
        black_check == is_team_checked(board, Black)
        pl == board.piece_list
        king_square == IF castling_move < 2 THEN 4 ELSE 60
        kingside_clear == (castling_move = 0 \/ castling_move = 2)
                          /\ pl[king_square + 2] = PieceNone
                          /\ pl[king_square + 1] = PieceNone
        queenside_clear == pl[king_square - 2] = PieceNone
                           /\ pl[king_square - 1] = PieceNone
                           /\ pl[king_square - 3] = PieceNone
        target == IF kingside_clear THEN king_square + 2 ELSE king_square - 2
    IN  IF castling_move \in board.castling_rights
           /\ ~(IF castling_move < 2 THEN white_check ELSE black_check)
           /\ pl[king_square] = King
           /\ (kingside_clear \/ queenside_clear)
        THEN [ entry EXCEPT
                 !.bitboard = @ \cup {target},
                 !.moves = Append(@, MkMove(king_square, target, None, FALSE, TRUE)) ]
        ELSE entry

\* get_psuedolegal_moves, the whole "Add castling" loop (for castling_move in
\* 0..4) seen from one square: passes 0 and 1 write the entry of square 4,
\* passes 2 and 3 that of square 60.
RECURSIVE with_castling(_, _, _, _)
with_castling(board, index, entry, castling_move) ==
    IF castling_move > 3 THEN entry
    ELSE with_castling(board, index,
                       IF index = (IF castling_move < 2 THEN 4 ELSE 60)
                       THEN castle_step(board, entry, castling_move)
                       ELSE entry,
                       castling_move + 1)

\* The entry get_psuedolegal_moves returns for one origin square.
square_entry(board, index) ==
    with_castling(board, index, square_moves(board, index), 0)

\* BoardState::get_psuedolegal_moves
get_psuedolegal_moves(board) == [index \in Squares |-> square_entry(board, index)]

\* Whether a move set holds an entry whose computation overflowed.
move_list_overflows(move_list) == \E index \in Squares : move_list[index].overflow

\* get_psuedolegal_moves, the squares for which its closure calls
\* get_precomputed_pawn with a piece whose steps overflow: whether
\* get_psuedolegal_moves(board) holds an entry that overflowed.
psuedolegal_overflows(board) ==
    \E index \in Squares :
        /\ get_square_team(board, index) # TeamNone
        /\ board.piece_list[index] = Pawn
        /\ pawn_step_overflows(MkPiece(Pawn, get_square_team(board, index), index))

\* BoardState::update_capture_bitboards, the body for one team_id: the
\* squares of the team (Black's exclude any square White also covers), each
\* contributing its pseudolegal bitboard, a pawn's without its push squares.
team_capture_bitboard(board, team_id) ==
    UNION { square_entry(board, square).bitboard
                \ (IF board.piece_list[square] = Pawn
                   THEN pawn_push_compute[team_id][square] ELSE {})
          : square \in get_team_coverage(board, team_id)
                           \ (IF team_id = Black
                              THEN get_team_coverage(board, White) ELSE {}) }

\* BoardState::update_capture_bitboards, the loop "for team_id in 0..2":
\* White's bitboard is stored before Black's is computed, and each
\* computation reads the stored bitboards through is_team_checked in the
\* castling pass.
RECURSIVE capture_loop(_, _)
capture_loop(board, team_id) ==
    IF team_id > 1 THEN board
    ELSE capture_loop([board EXCEPT !.capture_bitboard[team_id] =
                                        team_capture_bitboard(board, team_id)],
                      team_id + 1)

\* BoardState::update_capture_bitboards: [board, overflow], the board as the
\* build without overflow checks leaves it, and whether get_psuedolegal_moves
\* overflowed, at which the build with them panics.
update_capture_bitboards(board) ==
    [ board |-> capture_loop(board, White),
      overflow |-> psuedolegal_overflows(board) ]

\* The castling-rights chain with the king branches setting their bits.
rights_after_move_set(castling_rights, move) ==
    IF move.start = 56 \/ move.target = 56 THEN castling_rights \ {3}
    ELSE IF move.start = 0 \/ move.target = 0 THEN castling_rights \ {1}
    ELSE IF move.start = 7 \/ move.target = 7 THEN castling_rights \ {0}
    ELSE IF move.start = 63 \/ move.target = 63 THEN castling_rights \ {2}
    ELSE IF move.start = 4 \/ move.target = 4 THEN castling_rights \cup {2, 3}
    ELSE IF move.start = 60 \/ move.target = 60 THEN castling_rights \cup {0, 1}
    ELSE castling_rights

\* BoardState::move_piece, the castling-rights chain.
rights_after_move(castling_rights, move) ==
    IF move.start = 56 \/ move.target = 56 THEN castling_rights \ {3}
    ELSE IF move.start = 0 \/ move.target = 0 THEN castling_rights \ {1}
    ELSE IF move.start = 7 \/ move.target = 7 THEN castling_rights \ {0}
    ELSE IF move.start = 63 \/ move.target = 63 THEN castling_rights \ {2}
    ELSE IF move.start = 4 \/ move.target = 4 THEN castling_rights \ {2, 3}
    ELSE IF move.start = 60 \/ move.target = 60 THEN castling_rights \ {0, 1}
    ELSE castling_rights

\* BoardState::move_piece
move_piece(board, square_team, moving_piece_type, move) ==
    LET mover == IF square_team = White THEN White ELSE Black
        other == IF square_team = White THEN Black ELSE White
        bp == board.board_pieces
        moved == (bp[mover][moving_piece_type] \ {move.start}) \cup {move.target}
        new_bp == [bp EXCEPT
                     ![mover][moving_piece_type] = moved,
                     ![other] = [p \in PieceTypes |-> bp[other][p] \ {move.target}]]
    IN  [board EXCEPT
            !.board_pieces = new_bp,
            !.castling_rights = rights_after_move(board.castling_rights, move),
            !.piece_list = [[board.piece_list EXCEPT ![move.start] = PieceNone]
                               EXCEPT ![move.target] = moving_piece_type]]

\* make_move: the rook move that completes a castle to the given king
\* target, if the target is one of the four castle squares.
castle_rook_move(target) ==
    IF target = 6 THEN Some(MkMove(7, 5, None, FALSE, TRUE))
    ELSE IF target = 2 THEN Some(MkMove(0, 3, None, FALSE, TRUE))
    ELSE IF target = 58 THEN Some(MkMove(56, 59, None, FALSE, TRUE))
    ELSE IF target = 62 THEN Some(MkMove(63, 61, None, FALSE, TRUE))
    ELSE None

\* unmake_move: the rook move that takes the rook of a castle back.
castle_rook_unmove(target) ==
    IF target = 6 THEN Some(MkMove(5, 7, None, FALSE, TRUE))
    ELSE IF target = 2 THEN Some(MkMove(3, 0, None, FALSE, TRUE))
    ELSE IF target = 58 THEN Some(MkMove(59, 56, None, FALSE, TRUE))
    ELSE IF target = 62 THEN Some(MkMove(61, 63, None, FALSE, TRUE))
    ELSE None

\* make_move / unmake_move, "if cmove.is_castle { match cmove.target ... }".
move_castle_rook(board, square_team, is_castle, rook_move) ==
    IF is_castle /\ is_some(rook_move)
    THEN move_piece(board, square_team, Rook, unwrap(rook_move))
    ELSE board

\* make_move after the pieces have moved: en passant bookkeeping.
make_move_en_passant(board, move) ==
    [board EXCEPT
        !.en_passant_square = IF move.is_pawn_double THEN Some(u32(move.target))
                              ELSE @,
        !.en_passant_turn = Some(board.turn_clock)]

\* make_move_clocks with the full-move counter advanced on White's move.
make_move_clocks_white(board) ==
    [ (IF board.active_team = Black
       THEN [board EXCEPT !.active_team = White,
                          !.en_passant_square = None]
       ELSE [board EXCEPT !.active_team = Black,
                          !.turn_clock = @ + 1])
      EXCEPT !.ply_clock = @ + 1 ]

\* make_move after update_capture_bitboards: the side to move and the clocks.
make_move_clocks(board) ==
    [ (IF board.active_team = Black
       THEN [board EXCEPT !.active_team = White,
                          !.turn_clock = @ + 1,
                          !.en_passant_square = None]
       ELSE [board EXCEPT !.active_team = Black])
      EXCEPT !.ply_clock = @ + 1 ]

\* make_move and unmake_move give [err, board, overflow]: err is "Ok" or
\* the MoveError, board the BoardState the call leaves behind in a build
\* without overflow checks, and overflow tells that update_capture_bitboards
\* overflowed, at which a build with them panics.  An error is returned
\* before anything is computed.
move_error(err, board) == [ err |-> err, board |-> board, overflow |-> FALSE ]

\* make_move, the body run when none of the errors is returned.
make_move_pieces(board, move, square_team, moving_piece_type) ==
    make_move_en_passant(
      move_castle_rook(
        move_piece(board, square_team, moving_piece_type, move),
        square_team, move.is_castle, castle_rook_move(move.target)),
      move)

make_move_ok(board, move, square_team, moving_piece_type) ==
    LET updated == update_capture_bitboards(
                     make_move_pieces(board, move, square_team, moving_piece_type))
    IN  [ err |-> "Ok", board |-> make_move_clocks(updated.board),
          overflow |-> updated.overflow ]

\* make_move without the test of the target square's team.
make_move_ally_unchecked(board, move) ==
    LET moving_piece_type == board.piece_list[move.start]
        square_team == get_square_team(board, move.start)
    IN  IF move.start = move.target THEN move_error("NotAMove", board)
        ELSE IF square_team = TeamNone THEN move_error("NoUnit", board)
        ELSE make_move_ok(board, move, square_team, moving_piece_type)

\* BoardState::make_move.  The result is [err, board, overflow]: err is "Ok"
\* or the MoveError, board the BoardState the call leaves behind in a build
\* whose arithmetic wraps, and overflow tells whether a build that checks
\* its arithmetic has panicked on the way.
make_move(board, move) ==
    LET moving_piece_type == board.piece_list[move.start]
        square_team == get_square_team(board, move.start)
        target_team == get_square_team(board, move.target)
    IN  IF move.start = move.target THEN move_error("NotAMove", board)
        ELSE IF square_team = TeamNone THEN move_error("NoUnit", board)
        ELSE IF target_team = square_team
        THEN move_error("AttackedAlly", board)
        ELSE make_move_ok(board, move, square_team, moving_piece_type)

\* Whether make_move(board, move) overflows: the overflow field of its
\* result, without the board.
make_move_overflows(board, move) ==
    LET moving_piece_type == board.piece_list[move.start]
        square_team == get_square_team(board, move.start)
        target_team == get_square_team(board, move.target)
    IN  /\ move.start # move.target
        /\ square_team # TeamNone
        /\ target_team # square_team
        /\ psuedolegal_overflows(
               make_move_pieces(board, move, square_team, moving_piece_type))

\* unmake_move: the captured piece is put back on the target square.
restore_capture(board, move) ==
    IF is_some(move.captures)
    THEN [board EXCEPT
            !.piece_list[move.target] = unwrap(move.captures).piece_type,
            !.board_pieces[unwrap(move.captures).team][unwrap(move.captures).piece_type]
                = @ \cup {move.target}]
    ELSE board

\* unmake_move, "Reinstate castling rights": rights_index is the team number.
reinstate_castling_rights(board, square_team, move) ==
    IF move.is_castle
    THEN [board EXCEPT !.castling_rights =
              IF move.target > move.start THEN @ \cup {square_team}
              ELSE IF move.target < move.start THEN @ \cup {square_team + 1}
              ELSE @]
    ELSE board

\* unmake_move: the side to move and the clocks.
unmake_move_clocks(board) ==
    [ (IF board.active_team = Black
       THEN [board EXCEPT !.active_team = White]
       ELSE [board EXCEPT !.turn_clock = @ - 1,
                          !.en_passant_square = None,
                          !.active_team = Black])
      EXCEPT !.ply_clock = @ - 1 ]

\* BoardState::unmake_move
unmake_move(board, move) ==
    LET moving_piece_type == board.piece_list[move.target]
        square_team == get_square_team(board, move.target)
        target_team == get_square_team(board, move.start)
    IN  IF move.start = move.target THEN move_error("NotAMove", board)
        ELSE IF square_team = TeamNone THEN move_error("NoUnit", board)
        ELSE IF target_team = square_team
        THEN move_error("AttackedAlly", board)
        ELSE LET updated ==
                     update_capture_bitboards(
                       unmake_move_clocks(
                         move_castle_rook(
                           reinstate_castling_rights(
                             restore_capture(
                               move_piece(board, square_team, moving_piece_type,
                                          MkMove(move.target, move.start,
                                                 move.captures, FALSE, FALSE)),
                               move),
                             square_team, move),
                           square_team, move.is_castle,
                           castle_rook_unmove(move.target))))
             IN  [ err |-> "Ok", board |-> updated.board,
                   overflow |-> updated.overflow ]

\* get_legal_moves, the body of the loop over one entry's moves: the move
\* is tried on a copy of the board.
\* try_outcome asking whether the other team's king is in check.
try_outcome_opponent(board, available_move, move_att) ==
    IF move_att.err # "Ok" THEN "Err"
    ELSE IF is_team_checked(move_att.board,
                            opponent(get_square_team(board, available_move.start)))
    THEN "Checked"
    ELSE "Legal"

try_outcome(board, available_move, move_att) ==
    IF move_att.err # "Ok" THEN "Err"
    ELSE IF is_team_checked(move_att.board,
                            get_square_team(board, available_move.start))
    THEN "Checked"
    ELSE "Legal"

\* The outcome of trying a move, and whether the make_move of the trial
\* overflowed.
tried_move(board, available_move, move_att) ==
    [ outcome |-> try_outcome(board, available_move, move_att),
      overflow |-> move_att.overflow ]

try_move(board, available_move) ==
    tried_move(board, available_move, make_move(board, available_move))

\* get_legal_moves: what the loop leaves of one entry, given the outcome of
\* trying each of its moves.  The entry overflowed when get_psuedolegal_moves
\* did in computing it or the make_move of one of its trials did.
filter_entry(entry, tried) ==
    [ bitboard |-> entry.bitboard
                     \ { entry.moves[i].target :
                           i \in { j \in 1..Len(entry.moves) :
                                     tried[j].outcome = "Checked" } },
      moves |-> LET kept == SelectSeq([i \in 1..Len(entry.moves) |-> i],
                                      LAMBDA i : tried[i].outcome = "Legal")
                IN  [k \in 1..Len(kept) |-> entry.moves[kept[k]]],
      overflow |-> entry.overflow \/ \E j \in 1..Len(entry.moves) : tried[j].overflow ]

\* The trials are made once each, in the order of the entry's moves.
legal_entry(board, entry) ==
    filter_entry(entry, [i \in 1..Len(entry.moves) |->
                            try_move(board, entry.moves[i])] \o << >>)

\* A Vec of 64 entries, indexed by square; the entries are computed once,
\* when the Vec is built.
square_vec(entries) == [index \in Squares |-> entries[index + 1]]

\* BoardState::get_legal_moves
get_legal_moves(board) ==
    square_vec([i \in 1..64 |-> legal_entry(board, square_entry(board, i - 1))]
                   \o << >>)

\* Whether get_legal_moves(board) overflows, in get_psuedolegal_moves or in
\* the make_move of a trial: what move_list_overflows tells of its result,
\* without the result.
get_legal_moves_overflows(board) ==
    \/ psuedolegal_overflows(board)
    \/ \E index \in Squares :
           LET moves == square_entry(board, index).moves
           IN  \E i \in 1..Len(moves) : make_move_overflows(board, moves[i])

\* BoardState::prune_moves_for_team: the moves of move_list, in order of
\* origin square, whose start square holds a piece of the team; prune_from
\* gives those of the origin squares first..last.
RECURSIVE prune_from(_, _, _, _, _)
prune_from(board, move_list, team, first, last_square) ==
    IF first = last_square
    THEN SelectSeq(move_list[first].moves,
                   LAMBDA available_move :
                       get_square_team(board, available_move.start) = team)
    ELSE LET middle == (first + last_square) \div 2
         IN  prune_from(board, move_list, team, first, middle)
             \o prune_from(board, move_list, team, middle + 1, last_square)

prune_moves_for_team(board, move_list, team) ==
    prune_from(board, move_list, team, 0, 63)

\* prune_moves_for_team_mut setting the flag whenever the pruned list is
\* empty, in check or not.
prune_moves_for_team_mut_unchecked(board, move_list, team) ==
    LET pruned_list == prune_from(board, move_list, team, 0, 63)
    IN  [ board |-> IF pruned_list = << >>
                    THEN [board EXCEPT !.active_team_checkmate = TRUE]
                    ELSE board,
          pruned_list |-> pruned_list ]

\* BoardState::prune_moves_for_team_mut: [board, pruned_list]
prune_moves_for_team_mut(board, move_list, team) ==
    LET pruned_list == prune_from(board, move_list, team, 0, 63)
    IN  [ board |-> IF pruned_list = << >> /\ is_team_checked(board, board.active_team)
                    THEN [board EXCEPT !.active_team_checkmate = TRUE]
                    ELSE board,
          pruned_list |-> pruned_list ]

\* -------------------------------------------------------------- FEN import
LIST_OF_PIECES == << "k", "q", "r", "b", "n", "p", "K", "Q", "R", "B", "N", "P" >>
SPLITTER == "/"

UpperLetters == << "A", "B", "C", "D", "E", "F", "G", "H", "I", "J", "K", "L", "M",
                   "N", "O", "P", "Q", "R", "S", "T", "U", "V", "W", "X", "Y", "Z" >>
LowerLetters == << "a", "b", "c", "d", "e", "f", "g", "h", "i", "j", "k", "l", "m",
                   "n", "o", "p", "q", "r", "s", "t", "u", "v", "w", "x", "y", "z" >>

contains(str, c) == \E i \in 1..Len(str) : str[i] = c

\* char::is_ascii_uppercase, char::to_ascii_lowercase, char::to_ascii_uppercase
is_ascii_uppercase(c) == contains(UpperLetters, c)
to_ascii_lowercase(c) ==
    IF is_ascii_uppercase(c)
    THEN LowerLetters[CHOOSE i \in 1..26 : UpperLetters[i] = c]
    ELSE c
to_ascii_uppercase(c) ==
    IF contains(LowerLetters, c)
    THEN UpperLetters[CHOOSE i \in 1..26 : LowerLetters[i] = c]
    ELSE c

\* str::split(" ")
RECURSIVE split(_, _)
split(str, sep) ==
    IF ~contains(str, sep) THEN << str >>
    ELSE LET at == CHOOSE i \in 1..Len(str) :
                       str[i] = sep /\ \A j \in 1..(i - 1) : str[j] # sep
         IN  << SubSeq(str, 1, at - 1) >> \o split(SubSeq(str, at + 1, Len(str)), sep)

\* str::parse::<i64>: an optional sign and at least one decimal digit, and
\* a value within i64::MIN..=i64::MAX.  The range is decided on the digits,
\* without the value: significant drops the leading zeros, and a number of
\* as many digits as the limit is compared with it digit by digit.
I64_MAX_DIGITS ==
    << "9", "2", "2", "3", "3", "7", "2", "0", "3", "6", "8", "5", "4", "7",
       "7", "5", "8", "0", "7" >>
I64_MIN_DIGITS ==
    << "9", "2", "2", "3", "3", "7", "2", "0", "3", "6", "8", "5", "4", "7",
       "7", "5", "8", "0", "8" >>

RECURSIVE significant(_)
significant(digits) ==
    IF Len(digits) > 1 /\ digits[1] = "0" THEN significant(Tail(digits))
    ELSE digits

digits_exceed(digits, limit) ==
    \/ Len(digits) > Len(limit)
    \/ /\ Len(digits) = Len(limit)
       /\ \E i \in 1..Len(limit) :
              /\ unwrap(to_digit(digits[i])) > unwrap(to_digit(limit[i]))
              /\ \A j \in 1..(i - 1) : digits[j] = limit[j]

RECURSIVE digits_value(_, _)
digits_value(str, acc) ==
    IF str = << >> THEN acc
    ELSE digits_value(Tail(str), (acc * 10) + unwrap(to_digit(str[1])))

parse_i64(str) ==
    LET signed == str # << >> /\ str[1] \in {"+", "-"}
        negative == signed /\ str[1] = "-"
        body == IF signed THEN Tail(str) ELSE str
    IN  IF body # << >> /\ \A i \in 1..Len(body) : is_some(to_digit(body[i]))
        THEN IF digits_exceed(significant(body),
                              IF negative THEN I64_MIN_DIGITS ELSE I64_MAX_DIGITS)
             THEN None
             ELSE Some(IF negative THEN -digits_value(significant(body), 0)
                       ELSE digits_value(significant(body), 0))
        ELSE None

\* from_fen, the piece letter of the match in field 1.
piece_of_letter(c) ==
    CASE c = "k" -> King [] c = "q" -> Queen [] c = "p" -> Pawn
      [] c = "b" -> Bishop [] c = "r" -> Rook [] c = "n" -> Knight

\* from_fen, field 1: the loop over the characters of the piece placement,
\* for the characters of one rank (the text up to the next SPLITTER), with
\* rank and file as the loop carries them.  The result is [err, placed, file,
\* overflow]: placed lists the bits the loop sets, in order, as [team,
\* piece_type, square], file is the file the loop is left on; "Panic" stands
\* for the index out of bounds the source runs into on a rank below the
\* first or a run of digits past file h.  The loop computes
\* (rank as usize) * 8 + file for every character before it looks at it,
\* and below the first rank the product overflows: overflow tells that a
\* character was read there, where a build with overflow checks panics and a
\* build without them goes on with the fields beside it.
square_overflows(rank) == rank < 0

RECURSIVE parse_rank(_, _, _)
parse_rank(chars, rank, file) ==
    IF chars = << >>
    THEN [ err |-> "Ok", placed |-> << >>, file |-> file, overflow |-> FALSE ]
    ELSE
    LET char == chars[1]
        team == IF is_ascii_uppercase(char) THEN White ELSE Black
        square == (rank * 8) + file
        lower == to_ascii_lowercase(char)
        advance(file2) == IF contains(LIST_OF_PIECES, char) /\ file2 + 1 < 8
                          THEN file2 + 1 ELSE file2
        rest(file2) == [ parse_rank(Tail(chars), rank, file2)
                           EXCEPT !.overflow = @ \/ square_overflows(rank) ]
        put(item, res) == [ res EXCEPT !.placed = << item >> \o @ ]
        stop(err) == [ err |-> err, placed |-> << >>, file |-> file,
                       overflow |-> square_overflows(rank) ]
    IN  IF lower \in {"k", "q", "p", "b", "r", "n"}
        THEN IF square \notin Squares THEN stop("Panic")
             ELSE put([ team |-> team, piece_type |-> piece_of_letter(lower),
                        square |-> square ],
                      rest(advance(file)))
        ELSE IF lower \in {"1", "2", "3", "4", "5", "6", "7", "8"}
        THEN LET empty_spaces == unwrap(to_digit(char))
             IN  IF char # "8" /\ file + empty_spaces # 8
                 THEN IF file + empty_spaces > 7 THEN stop("Panic")
                      ELSE rest(advance(file + empty_spaces))
                 ELSE rest(advance(7))
        ELSE stop("BadState")

\* from_fen, field 1, rank by rank: ranks is the field split at SPLITTER,
\* and the SPLITTER after every rank but the last, a character of the loop
\* like the others, asks for file h, takes the rank down by one and the
\* file back to a.  The result is [err, placed, overflow].
RECURSIVE parse_placement(_, _, _)
parse_placement(ranks, rank_idx, rank) ==
    LET this == parse_rank(ranks[rank_idx], rank, 0)
    IN  IF this.err # "Ok"
        THEN [ err |-> this.err, placed |-> << >>, overflow |-> this.overflow ]
        ELSE IF rank_idx = Len(ranks)
        THEN [ err |-> "Ok", placed |-> this.placed, overflow |-> this.overflow ]
        ELSE IF this.file # 7
        THEN [ err |-> "BadState", placed |-> << >>,
               overflow |-> this.overflow \/ square_overflows(rank) ]
        ELSE [ parse_placement(ranks, rank_idx + 1, rank - 1)
                 EXCEPT !.placed = this.placed \o @,
                        !.overflow = @ \/ this.overflow \/ square_overflows(rank) ]

\* from_fen, field 1: the bits set in the team's bitboard and in Both's.
place_pieces(bp, placed) ==
    [t \in DOMAIN bp |->
        [p \in PieceTypes |->
            bp[t][p] \cup { placed[i].square :
                              i \in { j \in 1..Len(placed) :
                                        /\ placed[j].piece_type = p
                                        /\ (placed[j].team = t \/ t = Both) } }]]

\* BoardState::init_piece_list: the piece types are written in ascending
\* order, so a square keeps the highest type whose bit either team has set.
init_piece_list(board) ==
    [board EXCEPT !.piece_list =
        [s \in Squares |->
            LET types == { p \in PieceTypes :
                             s \in board.board_pieces[White][p]
                                       \cup board.board_pieces[Black][p] }
            IN  IF types = {} THEN board.piece_list[s]
                ELSE CHOOSE p \in types : \A q \in types : q <= p]]

\* from_fen, fields 1 to 6, applied in order to the board built so far.  The
\* result is [err, board, overflow]: overflow tells that an integer
\* operation has overflowed on the way, in the placement loop or in
\* al_notation_to_bit_idx, so that a build with overflow checks has panicked
\* and err and board are those of a build without them.
RECURSIVE parse_fields(_, _, _)
parse_fields(parts, fen_part_idx, board) ==
    IF fen_part_idx > Len(parts)
    THEN [ err |-> "Ok", board |-> board, overflow |-> FALSE ]
    ELSE
    LET fen_part == parts[fen_part_idx]
        next(b) == parse_fields(parts, fen_part_idx + 1, b)
        stop(err) == [ err |-> err, board |-> board, overflow |-> FALSE ]
    IN  CASE fen_part_idx = 1 ->
               LET placement == parse_placement(split(fen_part, SPLITTER), 1, 7)
               IN  IF placement.err # "Ok"
                   THEN [ err |-> placement.err, board |-> board,
                          overflow |-> placement.overflow ]
                   ELSE [ next([board EXCEPT !.board_pieces =
                                                 place_pieces(@, placement.placed)])
                            EXCEPT !.overflow = @ \/ placement.overflow ]
          [] fen_part_idx = 2 ->
               IF contains(fen_part, "b") THEN next([board EXCEPT !.active_team = Black])
               ELSE IF contains(fen_part, "w")
               THEN next([board EXCEPT !.active_team = White])
               ELSE stop("BadTeam")
          [] fen_part_idx = 3 ->
               next([board EXCEPT !.castling_rights =
                        (IF contains(fen_part, "K") THEN {0} ELSE {})
                        \cup (IF contains(fen_part, "Q") THEN {1} ELSE {})
                        \cup (IF contains(fen_part, "k") THEN {2} ELSE {})
                        \cup (IF contains(fen_part, "q") THEN {3} ELSE {})])
          [] fen_part_idx = 4 ->
               IF Len(fen_part) < 2
               THEN next([board EXCEPT !.en_passant_square = None])
               ELSE LET outcomes == al_notation_to_bit_idx(fen_part)
                        returned == { o \in outcomes : o.kind = "Returned" }
                    IN  IF returned = {} THEN stop("Panic")
                        ELSE [ next([board EXCEPT !.en_passant_square =
                                        (CHOOSE o \in returned : TRUE).result])
                                 EXCEPT !.overflow = @ \/ Panicked \in outcomes ]
          [] fen_part_idx = 5 ->
               IF is_some(parse_i64(fen_part))
               THEN next([board EXCEPT !.fifty_move_clock = unwrap(parse_i64(fen_part))])
               ELSE stop("MalformedNumber")
          [] fen_part_idx = 6 ->
               IF is_some(parse_i64(fen_part))
               THEN next([board EXCEPT !.turn_clock = unwrap(parse_i64(fen_part))])
               ELSE stop("MalformedNumber")
          [] OTHER -> stop("Panic")

\* BoardState::from_fen: [err, board, overflow], err "Ok" or the FENErr.
from_fen(fen) ==
    LET parsed == parse_fields(split(fen, " "), 1, DefaultBoard)
        updated == update_capture_bitboards(init_piece_list(parsed.board))
    IN  IF parsed.err # "Ok" THEN parsed
        ELSE [ err |-> "Ok", board |-> updated.board,
               overflow |-> parsed.overflow \/ updated.overflow ]

\* -------------------------------------------------------------- FEN export
\* as_fen, the character of a piece type.
piece_char_of(piece_type) ==
    CASE piece_type = PieceNone -> "0" [] piece_type = Pawn -> "p"
      [] piece_type = Rook -> "r" [] piece_type = Bishop -> "b"
      [] piece_type = Knight -> "n" [] piece_type = Queen -> "q"
      [] piece_type = King -> "k"

\* as_fen, one rank of the piece placement, files a to h: the text written
\* for the squares from file on, given the run of empty squares so far.
RECURSIVE fen_rank(_, _, _, _)
fen_rank(board, rank, file, empty_square_head) ==
    IF file > 7
    THEN IF empty_square_head # 0 THEN IntToString(empty_square_head) ELSE << >>
    ELSE LET square == (rank * 8) + file
             piece_type == board.piece_list[square]
             team == get_square_team(board, square)
             piece_char == IF team = White
                           THEN to_ascii_uppercase(piece_char_of(piece_type))
                           ELSE piece_char_of(piece_type)
         IN  IF piece_type = PieceNone \/ team = TeamNone
             THEN fen_rank(board, rank, file + 1, empty_square_head + 1)
             ELSE (IF empty_square_head # 0 THEN IntToString(empty_square_head)
                   ELSE << >>)
                  \o << piece_char >> \o fen_rank(board, rank, file + 1, 0)

\* as_fen, the piece placement from rank index `rank` down to the first rank.
RECURSIVE fen_placement(_, _)
fen_placement(board, rank) ==
    fen_rank(board, rank, 0, 0)
        \o (IF rank # 0 THEN << "/" >> \o fen_placement(board, rank - 1) ELSE << >>)

\* as_fen, the castling field.
fen_castling(castling_rights) ==
    (IF castling_rights # {} THEN << >> ELSE << "-" >>)
    \o (IF 0 \in castling_rights THEN << "K" >> ELSE << >>)
    \o (IF 1 \in castling_rights THEN << "Q" >> ELSE << >>)
    \o (IF 2 \in castling_rights THEN << "k" >> ELSE << >>)
    \o (IF 3 \in castling_rights THEN << "q" >> ELSE << >>)

\* BoardState::as_fen
as_fen(board) ==
    LET castling_rights == fen_castling(board.castling_rights)
        en_passant_square ==
            IF is_some(board.en_passant_square)
            THEN LET eps == unwrap(board.en_passant_square)
                     eps_str == IF eps.hi = 0 THEN bit_idx_to_al_notation(eps.lo)
                                ELSE None
                 IN  IF is_some(eps_str) THEN unwrap(eps_str) ELSE << "-" >>
            ELSE << "-" >>
        half_move_clock == << "0" >>
        full_move_clock == IntToString(board.turn_clock)
        active_color == IF board.active_team = White THEN << "w" >> ELSE << "b" >>
        piece_placement == fen_placement(board, 7)
    IN  piece_placement \o << " " >> \o active_color \o << " " >> \o castling_rights
        \o << " " >> \o en_passant_square \o << " " >> \o half_move_clock
        \o << " " >> \o full_move_clock

\* ------------------------------------------------------------ the machine
\* The positions the model starts from, each built by from_fen.
\* 4kr2/8/8/8/8/8/P7/4K2R w K - 0 1
\* White may castle kingside; the f-file rook watches f1.
FenCastleThrough ==
    << "4", "k", "r", "2", "/", "8", "/", "8", "/", "8", "/", "8", "/",
       "8", "/", "P", "7", "/", "4", "K", "2", "R", " ", "w", " ", "K",
       " ", "-", " ", "0", " ", "1" >>

\* r3k3/7p/8/8/8/8/8/R3K3 b Qq - 0 1
\* Black to move: a double push, a queenside castle, a rook trade a8-a1.
FenBlackToMove ==
    << "r", "3", "k", "3", "/", "7", "p", "/", "8", "/", "8", "/", "8",
       "/", "8", "/", "8", "/", "R", "3", "K", "3", " ", "b", " ", "Q",
       "q", " ", "-", " ", "0", " ", "1" >>

\* 4k3/8/8/8/8/8/4r3/R3K2R w KQ - 0 1
\* White is in check with both paths clear.
FenInCheck ==
    << "4", "k", "3", "/", "8", "/", "8", "/", "8", "/", "8", "/", "8",
       "/", "4", "r", "3", "/", "R", "3", "K", "2", "R", " ", "w", " ",
       "K", "Q", " ", "-", " ", "0", " ", "1" >>

\* 4k3/8/8/8/8/8/8/R3K1NR w K - 0 1
\* Only the K right; g1 is occupied, the queenside is clear.
FenKingsideBlocked ==
    << "4", "k", "3", "/", "8", "/", "8", "/", "8", "/", "8", "/", "8",
       "/", "8", "/", "R", "3", "K", "1", "N", "R", " ", "w", " ", "K",
       " ", "-", " ", "0", " ", "1" >>

\* 4k3/8/8/8/1p6/8/2P5/4K3 w - - 0 1
\* c2-c4 lands beside the b4 pawn.
FenEnPassant ==
    << "4", "k", "3", "/", "8", "/", "8", "/", "8", "/", "1", "p", "6",
       "/", "8", "/", "2", "P", "5", "/", "4", "K", "3", " ", "w", " ",
       "-", " ", "-", " ", "0", " ", "1" >>

\* 8/7p/8/5r2/P3K2k/1P6/2P5/8 w - - 0 40
\* rules.rs unmake_move, without the g3 pawn.
FenUnmakeTest ==
    << "8", "/", "7", "p", "/", "8", "/", "5", "r", "2", "/", "P", "3",
       "K", "2", "k", "/", "1", "P", "6", "/", "2", "P", "5", "/", "8",
       " ", "w", " ", "-", " ", "-", " ", "0", " ", "4", "0" >>

\* 8/8/8/8/8/4K3/8/4k2R b K - 0 40
\* The white king has left e1 with White's rights intact (move_piece clears
\* bits 2 and 3 for a move from square 4), the black king stands on e1 and
\* the h1 rook checks it along the first rank.
FenForeignKing ==
    << "8", "/", "8", "/", "8", "/", "8", "/", "8", "/", "4", "K", "3",
       "/", "8", "/", "4", "k", "2", "R", " ", "b", " ", "K", " ", "-",
       " ", "0", " ", "4", "0" >>

\* 4k3/8/8/8/8/8/1p6/4K3 b - - 0 1
\* A black pawn on the second rank: get_precomputed_pawn subtracts 16 from
\* its square (move.rs 494-503).
FenLowPawn ==
    << "4", "k", "3", "/", "8", "/", "8", "/", "8", "/", "8", "/", "8",
       "/", "1", "p", "6", "/", "4", "K", "3", " ", "b", " ", "-", " ",
       "-", " ", "0", " ", "1" >>

InitialFens ==
    << FenCastleThrough, FenBlackToMove, FenInCheck, FenKingsideBlocked,
       FenEnPassant, FenUnmakeTest, FenForeignKing, FenLowPawn >>

\* --------------------------------------------------- opponents (mod.rs)
\* i32::MAX and i32::MIN.
I32_MAX == 2147483647
I32_MIN == (-2147483647) - 1

\* value * sign for a sign of 1 or -1: whether it overflows i32, and the
\* product a build without overflow checks leaves (wrapped).
mul_overflows(value, sign) == value = I32_MIN /\ sign = -1
wrapping_mul(value, sign) ==
    IF mul_overflows(value, sign) THEN I32_MIN ELSE value * sign

\* value + jiggle for a small jiggle: whether it overflows i32, and the
\* wrapped sum.
add_overflows(value, jiggle) ==
    \/ jiggle > 0 /\ value > I32_MAX - jiggle
    \/ jiggle < 0 /\ value < I32_MIN - jiggle
wrapping_add(value, jiggle) ==
    IF jiggle > 0 /\ value > I32_MAX - jiggle
    THEN I32_MIN + ((jiggle - 1) - (I32_MAX - value))
    ELSE IF jiggle < 0 /\ value < I32_MIN - jiggle
    THEN I32_MAX - (((-jiggle) - 1) - (value - I32_MIN))
    ELSE value + jiggle

\* SCORES, looked up by piece type.
SCORES ==
    [ p \in PieceTypes |->
        CASE p = Pawn -> 100 [] p = Knight -> 300 [] p = Bishop -> 300
          [] p = Rook -> 500 [] p = Queen -> 900 [] p = King -> 1000000
          [] OTHER -> 0 ]

\* evaluate_team: the material of the team on the squares first..last_square
\* of piece_list.
RECURSIVE material(_, _, _, _)
material(board, team, first, last_square) ==
    IF first = last_square
    THEN IF get_square_team(board, first) = team
         THEN SCORES[board.piece_list[first]] ELSE 0
    ELSE LET middle == (first + last_square) \div 2
         IN  material(board, team, first, middle)
                 + material(board, team, middle + 1, last_square)

evaluate_team(board, team) == material(board, team, 0, 63)

\* evaluate: the move lists it prunes do not enter the result.
evaluate(board) == evaluate_team(board, White) - evaluate_team(board, Black)

\* evaluate_move, the static score of the position after the move.
eval_score(virtual_board, ava_move, who_to_play) ==
    LET forking == virtual_board.capture_bitboard[virtual_board.active_team]
                       \cap get_team_coverage(virtual_board,
                                              opponent(virtual_board.active_team))
    IN  evaluate(virtual_board)
            + (IF ava_move.is_castle THEN 1200 * who_to_play ELSE 0)
            - (IF virtual_board.active_team_checkmate
               THEN 100000000 * who_to_play ELSE 0)
            + (IF Cardinality(forking) > 1
               THEN 50 * Cardinality(forking) * who_to_play ELSE 0)

\* evaluate_move: [value, board, overflow], the board being the caller's
\* board as the call leaves it, and overflow whether a make_move, a
\* get_legal_moves or an unmake_move of the search overflowed, at which a
\* build with overflow checks panics; value and board are those of a build
\* without them.  search_loop is the loop over the replies, from reply i
\* on: white tells which of the two loops it is, acc is max or min so far.
RECURSIVE evaluate_move(_, _, _, _, _)
RECURSIVE search_loop(_, _, _, _, _, _, _, _, _)
search_step(reply, legals, i, search_budget, best_white, best_black, acc, white, overflow) ==
    IF white
    THEN IF reply.value >= best_black
         THEN [ value |-> Max(acc, best_white), board |-> reply.board,
                overflow |-> overflow \/ reply.overflow ]
         ELSE search_loop(reply.board, legals, i + 1, search_budget,
                          Max(best_white, reply.value), best_black,
                          Max(acc, best_white), white,
                          overflow \/ reply.overflow)
    ELSE IF reply.value <= best_white
         THEN [ value |-> Min(acc, best_black), board |-> reply.board,
                overflow |-> overflow \/ reply.overflow ]
         ELSE search_loop(reply.board, legals, i + 1, search_budget,
                          best_white, Min(best_black, reply.value),
                          Min(acc, best_black), white,
                          overflow \/ reply.overflow)

search_loop(board, legals, i, search_budget, best_white, best_black, acc, white, overflow) ==
    IF i > Len(legals)
    THEN [ value |-> acc, board |-> board, overflow |-> overflow ]
    ELSE search_step(evaluate_move(board, legals[i], search_budget - 1,
                                   best_white, best_black),
                     legals, i, search_budget, best_white, best_black, acc,
                     white, overflow)

\* evaluate_move, the unmake_move that ends it.
unmade(found, ava_move, unmove_att) ==
    [ value |-> found.value, board |-> unmove_att.board,
      overflow |-> found.overflow \/ unmove_att.overflow ]

\* evaluate_move, the search below the position after the move, given the
\* move set get_legal_moves returned for it.
searched_replies(virtual_board, ava_move, search_budget, best_white, best_black, legals_all, overflow) ==
    search_loop(virtual_board,
                prune_moves_for_team(virtual_board, legals_all,
                                     virtual_board.active_team),
                1, search_budget, best_white, best_black,
                IF virtual_board.active_team = White THEN I32_MIN ELSE I32_MAX,
                virtual_board.active_team = White,
                overflow \/ move_list_overflows(legals_all))

\* evaluate_move after its make_move: the leaf case, or the search, and the
\* unmake_move that ends both.  get_legal_moves is called in both cases; the
\* leaf takes nothing from its result.
searched(virtual_board, ava_move, search_budget, best_white, best_black, score, overflow) ==
    IF search_budget = 0
    THEN unmade([ value |-> score,
                  overflow |-> overflow \/ get_legal_moves_overflows(virtual_board) ],
                ava_move, unmake_move(virtual_board, ava_move))
    ELSE LET found == searched_replies(virtual_board, ava_move, search_budget,
                                       best_white, best_black,
                                       get_legal_moves(virtual_board), overflow)
         IN  unmade(found, ava_move, unmake_move(found.board, ava_move))

evaluate_move_made(move_att, ava_move, search_budget, best_white, best_black, who_to_play) ==
    searched(move_att.board, ava_move, search_budget, best_white, best_black,
             eval_score(move_att.board, ava_move, who_to_play),
             move_att.overflow)

evaluate_move(board, ava_move, search_budget, best_white, best_black) ==
    evaluate_move_made(make_move(board, ava_move), ava_move, search_budget,
                       best_white, best_black,
                       IF board.active_team = White THEN 1 ELSE -1)

\* What a call of get_move comes to: it returns an Option<Move>, it panics,
\* or it never returns.
Hung == [ kind |-> "Hang", result |-> None ]

\* ChessOpponent.  Ada's Duration is modelled by what it decides: the
\* number of deepening rounds that finish before Instant::now() is seen
\* beyond the limit, which happens at the first check of the next round.
Randy == [ name |-> "Randy" ]
Matt(search_budget) == [ name |-> "Matt", search_budget |-> search_budget ]
Ada(rounds) == [ name |-> "Ada", rounds |-> rounds ]

\* The outcome a build with overflow checks adds to those of a call in
\* which an integer operation overflowed.
overflow_outcomes(overflow) == IF overflow THEN { Panicked } ELSE {}

\* pick_random_move choosing among the legal moves of the side that is not
\* to move.
pick_random_move_other_team(board) ==
    LET legals == prune_moves_for_team(board, get_legal_moves(board),
                                       opponent(board.active_team))
    IN  overflow_outcomes(get_legal_moves_overflows(board))
        \cup (IF legals = << >> THEN { Returned(None) }
              ELSE { Returned(Some(legals[i])) : i \in 1..Len(legals) })

\* pick_random_move
pick_random_move(board) ==
    LET legals == prune_moves_for_team(board, get_legal_moves(board),
                                       board.active_team)
    IN  overflow_outcomes(get_legal_moves_overflows(board))
        \cup (IF legals = << >> THEN { Returned(None) }
              ELSE { Returned(Some(legals[i])) : i \in 1..Len(legals) })

\* sort_by(|a, b| b.eval.cmp(&a.eval)) followed by [0]: the index of the
\* first entry that has the greatest eval.
first_best(evals) ==
    CHOOSE i \in 1..Len(evals) :
        /\ \A k \in 1..Len(evals) : evals[k] <= evals[i]
        /\ \A k \in 1..(i - 1) : evals[k] < evals[i]

\* get_move of Matt, after the test for a single legal move, given the
\* results of evaluate_move for the legal moves.  The product with -1
\* overflows for i32::MIN: a build with overflow checks panics, one without
\* wraps.  tracing::debug! evaluates mapped_legals.0[0] only when the debug
\* level is enabled, and then panics on an empty list.
matt_sorted(board, legals, scored) ==
    LET sign == IF board.active_team = White THEN 1 ELSE -1
        evals == [i \in 1..Len(legals) |-> wrapping_mul(scored[i].value, sign)]
    IN  overflow_outcomes(\E i \in 1..Len(legals) :
                              \/ scored[i].overflow
                              \/ mul_overflows(scored[i].value, sign))
        \cup (IF legals = << >> THEN { Returned(None), Panicked }
              ELSE { Returned(Some(legals[first_best(evals)])) })

\* The loop of get_move over the legal moves: evaluate_move on a clone of
\* the board for each, once.
matt_search(board, legals, search_budget) ==
    matt_sorted(board, legals,
                [i \in 1..Len(legals) |->
                    evaluate_move(board, legals[i], search_budget - 1,
                                  I32_MIN, I32_MAX)] \o << >>)

get_move_matt(board, search_budget) ==
    LET legals == prune_moves_for_team(board, get_legal_moves(board),
                                       board.active_team)
    IN  overflow_outcomes(get_legal_moves_overflows(board))
        \cup (IF Len(legals) = 1 THEN { Returned(Some(legals[1])) }
              ELSE matt_search(board, legals, search_budget))

\* get_move of Ada, one round of the 'legal_check loop from root move i on:
\* [values, signs, board, overflow], the board being Ada's own, which every
\* evaluate_move works on and leaves as its unmake_move leaves it, overflow
\* whether an evaluate_move of the round overflowed.  The loop over the root
\* moves first..last_index is taken in two halves, the second run on the
\* board the first leaves.
RECURSIVE ada_span(_, _, _, _, _)
ada_scored(scored) ==
    [ values |-> << scored.value >>,
      signs |-> << IF scored.board.active_team = White THEN 1 ELSE -1 >>,
      board |-> scored.board,
      overflow |-> scored.overflow ]

ada_joined(left, right) ==
    [ values |-> left.values \o right.values,
      signs |-> left.signs \o right.signs,
      board |-> right.board,
      overflow |-> left.overflow \/ right.overflow ]

ada_second_half(left, legals, middle, last_index, search_budget) ==
    ada_joined(left, ada_span(left.board, legals, middle + 1, last_index,
                              search_budget))

ada_span(board, legals, first, last_index, search_budget) ==
    IF first > last_index
    THEN [ values |-> << >>, signs |-> << >>, board |-> board,
           overflow |-> FALSE ]
    ELSE IF first = last_index
    THEN ada_scored(evaluate_move(board, legals[first], search_budget,
                                  I32_MIN, I32_MAX))
    ELSE ada_second_half(ada_span(board, legals, first,
                                  (first + last_index) \div 2, search_budget),
                         legals, (first + last_index) \div 2, last_index,
                         search_budget)

ada_round(board, legals, i, search_budget) ==
    ada_span(board, legals, i, Len(legals), search_budget)

\* The rounds search_budget, search_budget + 1, ... up to the last finished
\* one: the sequence of their results, in order.
RECURSIVE ada_rounds(_, _, _, _)
ada_next(round, legals, search_budget, rounds) ==
    << round >> \o ada_rounds(round.board, legals, search_budget + 1, rounds)

ada_rounds(board, legals, search_budget, rounds) ==
    IF search_budget >= rounds THEN << >>
    ELSE ada_next(ada_round(board, legals, 1, search_budget),
                  legals, search_budget, rounds)

\* rand::rng().random_range(-2..=2)
Jiggles == -2..2

\* The root moves that can come first in mapped_legals after the sort, for
\* some draw of the jiggles: the evals a move can get are evals[i] + jiggle.
ada_best(evals) ==
    LET Keys(i) == { wrapping_add(evals[i], j) : j \in Jiggles }
    IN  { i \in 1..Len(evals) :
            \E key \in Keys(i) :
                /\ \A k \in 1..(i - 1) : \E other \in Keys(k) : other < key
                /\ \A k \in (i + 1)..Len(evals) : \E other \in Keys(k) : other <= key }

\* Whether a round, or the part of a round that was run, has an arithmetic
\* overflow, for some draw of the jiggles.
round_overflows(round) ==
    \/ round.overflow
    \/ \E i \in 1..Len(round.values) :
           \/ mul_overflows(round.values[i], round.signs[i])
           \/ \E j \in Jiggles :
                  add_overflows(wrapping_mul(round.values[i], round.signs[i]), j)

\* get_move of Ada, the round the time test breaks: the test runs before
\* every root move, so the limit is seen passed before the first root move
\* of the round or after any number of them short of all; this is the
\* longest such part, run on the board the finished rounds leave.
ada_interrupted(board, done, legals, rounds) ==
    ada_span(IF done = << >> THEN board ELSE done[Len(done)].board,
             legals, 1, Len(legals) - 1, rounds)

\* get_move of Ada after the loop, given the finished rounds and the part of
\* the interrupted round that was run: the interrupted round gives no move,
\* but its arithmetic is done and can overflow.
ada_chosen(legals, done, interrupted) ==
    overflow_outcomes(\/ \E r \in 1..Len(done) : round_overflows(done[r])
                      \/ round_overflows(interrupted))
    \cup (IF done = << >> THEN { Returned(None) }
          ELSE { Returned(Some(legals[i])) :
                     i \in ada_best([k \in 1..Len(legals) |->
                                        wrapping_mul(done[Len(done)].values[k],
                                                     done[Len(done)].signs[k])]) })

ada_interrupt(board, legals, rounds, done) ==
    ada_chosen(legals, done, ada_interrupted(board, done, legals, rounds))

\* get_move of Ada from the deepening loop on, with two legal moves or more:
\* rounds rounds are finished before the limit is seen passed.
ada_search(board, legals, rounds) ==
    ada_interrupt(board, legals, rounds, ada_rounds(board, legals, 0, rounds))

\* get_move of Ada.  With no legal move and no checkmate the loop never
\* reaches its only exit, the time test inside the loop over the legal
\* moves: search_budget += 1 runs until it overflows (a panic with overflow
\* checks) or for ever.
get_move_ada(board, rounds) ==
    LET pruned == prune_moves_for_team_mut(board, get_legal_moves(board),
                                           board.active_team)
        legals == pruned.pruned_list
    IN  overflow_outcomes(get_legal_moves_overflows(board))
        \cup (IF pruned.board.active_team_checkmate THEN { Returned(None) }
              ELSE IF Len(legals) = 1 THEN { Returned(Some(legals[1])) }
              ELSE IF legals = << >> THEN { Hung, Panicked }
              ELSE ada_search(pruned.board, legals, rounds))

\* MoveComputer::get_move for ChessOpponent: the outcomes it can have.
get_move(strategy, board) ==
    CASE strategy.name = "Randy" -> pick_random_move(board)
      [] strategy.name = "Matt" -> get_move_matt(board, strategy.search_budget)
      [] strategy.name = "Ada" -> get_move_ada(board, strategy.rounds)

\* get_move of Ada up to the deepening loop: Ada's own board after
\* prune_moves_for_team_mut, and the legal moves of the side to move.
ada_begin(board) ==
    LET pruned == prune_moves_for_team_mut(board, get_legal_moves(board),
                                           board.active_team)
    IN  [ board |-> pruned.board, legals |-> pruned.pruned_list,
          overflow |-> get_legal_moves_overflows(board) ]

\* One pass of the 'legal_check loop body for legal_move: the entry pushed
\* on evals, before the jiggle is added, Ada's board after evaluate_move,
\* and whether evaluate_move, the multiplication or, for some jiggle, the
\* addition overflows.
ada_pushed(scored, sign, legal_move) ==
    [ entry |-> [ eval |-> wrapping_mul(scored.value, sign),
                  legal_move |-> legal_move ],
      board |-> scored.board,
      overflows |-> \/ scored.overflow
                    \/ mul_overflows(scored.value, sign)
                    \/ \E j \in Jiggles :
                           add_overflows(wrapping_mul(scored.value, sign), j) ]

ada_signed(scored, legal_move) ==
    ada_pushed(scored, IF scored.board.active_team = White THEN 1 ELSE -1,
               legal_move)

ada_evaluate(board, legal_move, search_budget) ==
    ada_signed(evaluate_move(board, legal_move, search_budget,
                             I32_MIN, I32_MAX),
               legal_move)

\* The list the loop leaves with when the time test breaks it, with the
\* entries of the interrupted round taking the place of the finished one.
ada_kept_interrupted(mapped_legals, evals) ==
    IF evals = << >> THEN mapped_legals ELSE evals

\* The list the loop leaves with when the time test breaks it:
\* mapped_legals is assigned only after a round has gone through every
\* legal move, and the evals of the interrupted round are dropped.
ada_kept(mapped_legals, evals) == mapped_legals

\* What get_move of Ada returns after the loop, for some draw of the
\* jiggles: the move of the first entry of the sorted list, or None.
ada_result(mapped_legals) ==
    IF mapped_legals = << >> THEN { None }
    ELSE { Some(mapped_legals[i].legal_move) :
               i \in ada_best([k \in 1..Len(mapped_legals) |->
                                   mapped_legals[k].eval]) }

\* The minimax value a search of search_budget further plies gives the
\* position after ava_move: the static score of that position when
\* search_budget is 0 or the side to move has no legal reply, and otherwise
\* the greatest value of the legal replies when White is to move, the least
\* when Black is.  Every branch starts from its own copy of the position.
RECURSIVE minimax(_, _, _)
minimax_replies(virtual_board, legals, search_budget, score) ==
    IF search_budget = 0 \/ legals = << >> THEN score
    ELSE LET values == { minimax(virtual_board, legals[i], search_budget - 1) :
                             i \in 1..Len(legals) }
         IN  IF virtual_board.active_team = White
             THEN CHOOSE v \in values : \A w \in values : w <= v
             ELSE CHOOSE v \in values : \A w \in values : v <= w

minimax_after(virtual_board, ava_move, search_budget, who_to_play) ==
    minimax_replies(virtual_board,
                    prune_moves_for_team(virtual_board,
                                         get_legal_moves(virtual_board),
                                         virtual_board.active_team),
                    search_budget,
                    eval_score(virtual_board, ava_move, who_to_play))

minimax(board, ava_move, search_budget) ==
    minimax_after(make_move(board, ava_move).board, ava_move, search_budget,
                  IF board.active_team = White THEN 1 ELSE -1)

\* Whether ava_move mates: after it the side to move is in check and has no
\* legal move.
is_mating(board, ava_move) ==
    /\ is_team_checked(make_move(board, ava_move).board,
                       make_move(board, ava_move).board.active_team)
    /\ prune_moves_for_team(make_move(board, ava_move).board,
                            get_legal_moves(make_move(board, ava_move).board),
                            make_move(board, ava_move).board.active_team) = << >>

\* The static score of the position after ava_move without its checkmate
\* term.
score_without_mate(board, ava_move, who_to_play) ==
    eval_score([make_move(board, ava_move).board
                    EXCEPT !.active_team_checkmate = FALSE],
               ava_move, who_to_play)

\* The number of legal moves the side to move has after ava_move.
replies_after(board, ava_move) ==
    Len(prune_moves_for_team(make_move(board, ava_move).board,
                             get_legal_moves(make_move(board, ava_move).board),
                             make_move(board, ava_move).board.active_team))

\* The number of pieces the bitboards of a team hold.
piece_count(board, team) ==
    Cardinality(board.board_pieces[team][Pawn])
        + Cardinality(board.board_pieces[team][Rook])
        + Cardinality(board.board_pieces[team][Bishop])
        + Cardinality(board.board_pieces[team][Knight])
        + Cardinality(board.board_pieces[team][Queen])
        + Cardinality(board.board_pieces[team][King])

\* MainState::update, the test that spawns a search worker: no receiver is
\* held, the side to move is not the player's, and the checkmate flag is
\* clear.
update_spawns(main_state, board) ==
    /\ main_state.opp_thread = None
    /\ main_state.player_team # board.active_team
    /\ ~board.active_team_checkmate

\* The number of calls on the board (get_legal_moves, make_move,
\* unmake_move) one run of the model makes.
MaxOps == 3

\* Hand-built moves, as the tests of rules.rs pass to make_move: start and
\* target squares chosen by the caller, captures read from the board.
ProbePairs == { << 4, 4 >>, << 36, 44 >>, << 4, 7 >>, << 60, 52 >> }

probe_move(b, pair) ==
    MkMove(pair[1], pair[2], get_piece_at_pos(b, pair[2]), FALSE, FALSE)

VARIABLES
    board,              \* the BoardState the caller holds
    board_legal_moves,  \* Option: what get_legal_moves last returned for it
    made,               \* the moves made and not yet unmade, each with the
                        \* board it was made on
    last,               \* the last call: op, move, err, the board before it,
                        \* whether unmake_move had been called before it
    pure,               \* no unmake_move has been called yet
    ops,                \* calls made so far
    ada,                \* the locals of a get_move call of Ada
    host                \* the MainState of the window beside its board, and
                        \* the search workers it has spawned

vars == << board, board_legal_moves, made, last, pure, ops, ada, host >>

\* MainState before any window exists: no caller of these runs has one.
HostIdle == [ phase |-> "None" ]

\* No get_move call of Ada has begun.
AdaIdle ==
    [ phase |-> "Idle", board |-> DefaultBoard, legals |-> << >>,
      search_budget |-> 0, index |-> 0, evals |-> << >>,
      mapped_legals |-> << >>, exceeded |-> FALSE, will_break |-> FALSE,
      result |-> None ]

Call(op, move, err, before, origin, from_legal) ==
    [ op |-> op, move |-> move, err |-> err, before |-> before,
      origin |-> origin, from_legal |-> from_legal, pure |-> pure ]

\* A call has panicked: the program has ended and makes no further call.
Panics == last.err = "Panic"

\* A run begins with from_fen on a well-formed FEN: the caller holds the board
\* it returned, or, where the call overflowed, the build with overflow checks
\* has panicked in it.
FromFenOutcome(built) ==
    /\ built.err = "Ok"
    /\ board = built.board
    /\ \/ last = Call("from_fen", DefaultMove, "Ok", built.board, built.board,
                      FALSE)
       \/ /\ built.overflow
          /\ last = Call("from_fen", DefaultMove, "Panic", built.board,
                         built.board, FALSE)

Init ==
    \E i \in 1..Len(InitialFens) :
        LET built == from_fen(InitialFens[i])
        IN  /\ board_legal_moves = None
            /\ made = << >>
            /\ pure = TRUE
            /\ FromFenOutcome(built)
            /\ ops = 0
            /\ ada = AdaIdle
            /\ host = HostIdle

\* get_legal_moves on the held board; the caller keeps the result.
GetLegalMovesOutcome(move_list) ==
    \/ /\ board_legal_moves' = Some(move_list)
       /\ last' = Call("get_legal_moves", DefaultMove, "Ok", board, board, FALSE)
    \/ /\ move_list_overflows(move_list)
       /\ board_legal_moves' = None
       /\ last' = Call("get_legal_moves", DefaultMove, "Panic", board, board,
                       FALSE)

GetLegalMovesWithin(bound) ==
    /\ ops < bound
    /\ ~Panics
    /\ board_legal_moves = None
    /\ GetLegalMovesOutcome(get_legal_moves(board))
    /\ ops' = ops + 1
    /\ UNCHANGED << board, made, pure, ada, host >>

GetLegalMoves == GetLegalMovesWithin(MaxOps)

\* make_move(m) on the held board.
MakeMoveOutcome(m, from_legal, move_att) ==
    \/ /\ board' = move_att.board
       /\ board_legal_moves' =
              IF move_att.err = "Ok" THEN None ELSE board_legal_moves
       /\ made' = IF move_att.err = "Ok"
                  THEN Append(made, [ move |-> m, before |-> board,
                                      from_legal |-> from_legal ])
                  ELSE made
       /\ last' = Call("make_move", m, move_att.err, board, board, from_legal)
    \/ /\ move_att.overflow
       /\ last' = Call("make_move", m, "Panic", board, board, from_legal)
       /\ UNCHANGED << board, board_legal_moves, made >>

MakeMoveWithin(m, from_legal, bound) ==
    /\ ops < bound
    /\ ~Panics
    /\ MakeMoveOutcome(m, from_legal, make_move(board, m))
    /\ ops' = ops + 1
    /\ UNCHANGED << pure, ada, host >>

MakeMove(m, from_legal) == MakeMoveWithin(m, from_legal, MaxOps)

\* The caller plays one of the legal moves of the side to move.
MakeLegalMoveWithin(bound) ==
    /\ is_some(board_legal_moves)
    /\ LET legals == prune_moves_for_team(board, unwrap(board_legal_moves),
                                          board.active_team)
       IN  \E i \in 1..Len(legals) : MakeMoveWithin(legals[i], TRUE, bound)

MakeLegalMove == MakeLegalMoveWithin(MaxOps)

\* The caller passes a hand-built move.
MakeProbeMove ==
    \E pair \in ProbePairs : MakeMove(probe_move(board, pair), FALSE)

\* unmake_move of the move made last.
UnmakeMoveOutcome(top, unmove_att) ==
    \/ /\ board' = unmove_att.board
       /\ last' = Call("unmake_move", top.move, unmove_att.err, board,
                       top.before, top.from_legal)
       /\ board_legal_moves' = None
       /\ made' = SubSeq(made, 1, Len(made) - 1)
    \/ /\ unmove_att.overflow
       /\ last' = Call("unmake_move", top.move, "Panic", board, top.before,
                       top.from_legal)
       /\ UNCHANGED << board, board_legal_moves, made >>

UnmakeMove ==
    /\ ops < MaxOps
    /\ ~Panics
    /\ made # << >>
    /\ UnmakeMoveOutcome(made[Len(made)], unmake_move(board, made[Len(made)].move))
    /\ pure' = FALSE
    /\ ops' = ops + 1
    /\ UNCHANGED << ada, host >>

Next ==
    \/ GetLegalMoves
    \/ MakeLegalMove
    \/ MakeProbeMove
    \/ UnmakeMove

Spec == Init /\ [][Next]_vars

\* ------------------------------------------------------------------ claims
\* The fields of BoardState that the make/unmake claims list.
ListedFields ==
    { "board_pieces", "piece_list", "castling_rights", "en_passant_square",
      "en_passant_turn", "turn_clock", "ply_clock", "active_team",
      "capture_bitboard", "active_team_checkmate" }

\* The last call was unmake_move(m) of a move m that get_legal_moves returned
\* for the side to move and make_move applied, on a position reached from a
\* FEN by make_move calls only, and it returned.
UnmadeLegalMove ==
    last.op = "unmake_move" /\ last.err # "Panic" /\ last.pure /\ last.from_legal

\* C1: make_move(m) followed by unmake_move(m), for a legal move m of the
\* side to move on a position P reached by make_move calls from a FEN,
\* leaves a BoardState equal to P in every listed field.
C1_UnmakeRestoresEveryField ==
    UnmadeLegalMove => \A f \in ListedFields : board[f] = last.origin[f]

\* C2: for a legal move m on P, as_fen is the same string before
\* make_move(m) and after make_move(m) followed by unmake_move(m).
C2_UnmakeRestoresFen ==
    UnmadeLegalMove => as_fen(board) = as_fen(last.origin)

\* C3: make_move returns NotAMove when start = target, NoUnit when no piece
\* stands on start, AttackedAlly when target holds a piece of the team of the
\* piece on start (the tests in that order), and an error leaves every field
\* of the BoardState as it was before the call.
C3_MakeMoveErrors ==
    last.op = "make_move" =>
        LET start == last.move.start
            target == last.move.target
            start_team == get_square_team(last.before, start)
            target_team == get_square_team(last.before, target)
        IN  /\ start = target => last.err = "NotAMove"
            /\ (start # target /\ start_team = TeamNone) => last.err = "NoUnit"
            /\ (start # target /\ start_team # TeamNone /\ target_team = start_team)
                   => last.err = "AttackedAlly"
            /\ last.err # "Ok" => board = last.before

\* C3 witness: make_move refused a move onto a piece of the mover's team.
C3_Witness ==
    /\ last.op = "make_move"
    /\ last.err = "AttackedAlly"
    /\ last.move.start # last.move.target
    /\ get_square_team(last.before, last.move.start) # TeamNone
    /\ board = last.before

\* The squares from which a piece of the team attacks: every square a piece
\* other than a pawn can move to, and the squares a pawn can capture on.
AttackBits(b, square) ==
    square_moves(b, square).bitboard
        \ (IF b.piece_list[square] = Pawn
           THEN pawn_push_compute[get_square_team(b, square)][square] ELSE {})

AttackedBy(b, team, target) ==
    \E square \in get_team_coverage(b, team) : target \in AttackBits(b, square)

\* A pseudolegal move passes the test of get_legal_moves: make_move on a copy
\* succeeds and the team of the moved piece is not in check afterwards.
PassesLegalTest(b, m) ==
    LET move_att == make_move(b, m)
    IN  /\ move_att.err = "Ok"
        /\ ~is_team_checked(move_att.board, get_square_team(b, m.start))

\* C4: a move is in the list get_legal_moves returns for a square iff it is
\* in the list get_psuedolegal_moves returns for that square and make_move on
\* a copy succeeds and leaves the mover's team unchecked; no returned move
\* leaves the mover's king on a square a piece of the other team attacks; the
\* caller's position is not modified.
C4_LegalIffPseudolegalAndSafe ==
    (last.op = "get_legal_moves" /\ last.err = "Ok") =>
        /\ board = last.before
        /\ is_some(board_legal_moves)
        /\ \A index \in Squares :
               LET legal == unwrap(board_legal_moves)[index].moves
                   psuedo == get_psuedolegal_moves(board)[index].moves
               IN  /\ \A i \in 1..Len(psuedo) :
                          PassesLegalTest(board, psuedo[i])
                              <=> \E j \in 1..Len(legal) : legal[j] = psuedo[i]
                   /\ \A j \in 1..Len(legal) :
                          /\ \E i \in 1..Len(psuedo) : psuedo[i] = legal[j]
                          /\ LET mover == get_square_team(board, legal[j].start)
                                 after == make_move(board, legal[j]).board
                             IN  \A king \in after.board_pieces[mover][King] :
                                     ~AttackedBy(after, opponent(mover), king)

\* C4 witness: get_legal_moves kept one move of a king and discarded another
\* that make_move accepts but that leaves the king in check.
C4_Witness ==
    /\ last.op = "get_legal_moves"
    /\ last.err = "Ok"
    /\ \E index \in Squares :
           LET legal == unwrap(board_legal_moves)[index].moves
               psuedo == get_psuedolegal_moves(board)[index].moves
           IN  /\ board.piece_list[index] = King
               /\ Len(legal) > 0
               /\ \E i \in 1..Len(psuedo) :
                      /\ make_move(board, psuedo[i]).err = "Ok"
                      /\ ~PassesLegalTest(board, psuedo[i])

\* The castling-rights bits that belong to a home square.
HomeBits(square) ==
    CASE square = 4 -> {0, 1}
      [] square = 60 -> {2, 3}
      [] square = 7 -> {0}
      [] square = 0 -> {1}
      [] square = 63 -> {2}
      [] square = 56 -> {3}
      [] OTHER -> {}

\* C5: after a successful make_move the castling-rights bits of every home
\* square the move's start or target equals are clear, and no other bit has
\* been cleared.
C5_HomeSquareBitsCleared ==
    (last.op = "make_move" /\ last.err = "Ok") =>
        board.castling_rights =
            last.before.castling_rights
                \ (HomeBits(last.move.start) \cup HomeBits(last.move.target))

\* C6: over make_move calls, successful or failed, no castling_rights bit
\* goes from 0 to 1.
C6_MakeMoveNeverSetsRights ==
    last.op = "make_move" =>
        board.castling_rights \subseteq last.before.castling_rights

\* C6 witness: a successful make_move on a position with some bit set and
\* some bit clear cleared a bit.
C6_Witness ==
    /\ last.op = "make_move"
    /\ last.err = "Ok"
    /\ last.before.castling_rights \notin { {}, 0..3 }
    /\ board.castling_rights # last.before.castling_rights
    /\ board.castling_rights \subseteq last.before.castling_rights

\* The home square of a team's king, the castling-rights bit of a team and
\* side, and the squares strictly between the king and that side's rook.
KingHome(team) == IF team = White THEN 4 ELSE 60

CastleBit(team, kingside) ==
    (IF team = White THEN 0 ELSE 2) + (IF kingside THEN 0 ELSE 1)

CastleTarget(team, kingside) ==
    IF kingside THEN KingHome(team) + 2 ELSE KingHome(team) - 2

SquaresBetween(team, kingside) ==
    IF kingside THEN { KingHome(team) + 1, KingHome(team) + 2 }
    ELSE { KingHome(team) - 1, KingHome(team) - 2, KingHome(team) - 3 }

\* get_psuedolegal_moves(b) holds a castling move of the team to that side.
HasCastle(b, team, kingside) ==
    \E index \in Squares :
        LET moves == get_psuedolegal_moves(b)[index].moves
        IN  \E i \in 1..Len(moves) :
                /\ moves[i].is_castle
                /\ get_square_team(b, moves[i].start) = team
                /\ moves[i].target = CastleTarget(team, kingside)
                /\ abs_diff(moves[i].start, moves[i].target) = 2

\* C7: get_psuedolegal_moves holds a castling move for a team and side iff
\* that bit of castling_rights is set, the team's king is on its home square,
\* the team is not in check, and every square strictly between the king and
\* that side's rook is empty.
C7_CastleGeneratedIffAllowed ==
    \A team \in {White, Black} : \A kingside \in BOOLEAN :
        HasCastle(board, team, kingside)
            <=> /\ CastleBit(team, kingside) \in board.castling_rights
                /\ KingHome(team) \in board.board_pieces[team][King]
                /\ ~is_team_checked(board, team)
                /\ \A s \in SquaresBetween(team, kingside) :
                       board.piece_list[s] = PieceNone

\* C8: where is_team_checked(team) holds, get_legal_moves returns no move
\* with is_castle = TRUE for that team, and the highlight bitboard of the
\* team's king on a king home square has neither castling target bit set.
C8_NoCastleInCheck ==
    is_some(board_legal_moves) =>
        \A team \in {White, Black} :
            is_team_checked(board, team) =>
                /\ \A index \in Squares :
                       LET legal == unwrap(board_legal_moves)[index].moves
                       IN  \A i \in 1..Len(legal) :
                               ~(/\ legal[i].is_castle
                                 /\ get_square_team(board, legal[i].start) = team)
                /\ \A king \in board.board_pieces[team][King] \cap {4, 60} :
                       unwrap(board_legal_moves)[king].bitboard
                           \cap {king + 2, king - 2} = {}

\* C9: get_legal_moves offers no castling move whose passed-over square (the
\* one between the king's start and target) a piece of the other team
\* attacks.
C9_NoCastleThroughAttack ==
    is_some(board_legal_moves) =>
        \A index \in Squares :
            LET legal == unwrap(board_legal_moves)[index].moves
            IN  \A i \in 1..Len(legal) :
                    legal[i].is_castle =>
                        ~AttackedBy(board,
                                    opponent(get_square_team(board, legal[i].start)),
                                    (legal[i].start + legal[i].target) \div 2)

\* C10: right after a successful make_move with is_pawn_double = TRUE,
\* en_passant_square is Some(the square between start and target); a
\* successful make_move that is no double push sets no new square.
C10_EnPassantSquareIsPassedOver ==
    (last.op = "make_move" /\ last.err = "Ok") =>
        IF last.move.is_pawn_double
        THEN board.en_passant_square
                 = Some(u32((last.move.start + last.move.target) \div 2))
        ELSE board.en_passant_square \in { None, last.before.en_passant_square }

\* ------------------------------------------------- en passant (C11, C12)
\* Positions in which a double push lands beside an opposing pawn: White's
\* c2-c4 beside b4, Black's c7-c5 beside b5.
FenEnPassantBlack ==
    << "4", "k", "3", "/", "2", "p", "5", "/", "8", "/", "1", "P", "6",
       "/", "8", "/", "8", "/", "8", "/", "4", "K", "3", " ", "b", " ",
       "-", " ", "-", " ", "0", " ", "1" >>

EnPassantFens == << FenEnPassant, FenEnPassantBlack >>

\* Calls on the board in one run of the en passant games: get_legal_moves
\* and make_move alternate.
MaxEnPassantOps == 7

InitEnPassant ==
    \E i \in 1..Len(EnPassantFens) :
        LET built == from_fen(EnPassantFens[i])
        IN  /\ board_legal_moves = None
            /\ made = << >>
            /\ pure = TRUE
            /\ FromFenOutcome(built)
            /\ ops = 0
            /\ ada = AdaIdle
            /\ host = HostIdle

EnPassantGetLegalMoves == GetLegalMovesWithin(MaxEnPassantOps)

EnPassantMakeLegalMove == MakeLegalMoveWithin(MaxEnPassantOps)

NextEnPassant ==
    \/ EnPassantGetLegalMoves
    \/ EnPassantMakeLegalMove

SpecEnPassant == InitEnPassant /\ [][NextEnPassant]_vars

\* The k-th move made was a pawn's double push.
IsDoublePush(k) ==
    /\ made[k].move.is_pawn_double
    /\ made[k].before.piece_list[made[k].move.start] = Pawn

\* The squares beside the pushed pawn of move k, on its rank, that held an
\* opposing pawn right after the push and hold it in the current board, the
\* pushed pawn being still where it landed.
BesidePawns(k) ==
    LET t == made[k].move.target
        pusher == get_square_team(made[k].before, made[k].move.start)
        after == make_move(made[k].before, made[k].move).board
    IN  { a \in { t - 1, t + 1 } \cap Squares :
            /\ a \div 8 = t \div 8
            /\ after.piece_list[a] = Pawn
            /\ get_square_team(after, a) = opponent(pusher)
            /\ board.piece_list[a] = Pawn
            /\ get_square_team(board, a) = opponent(pusher)
            /\ board.piece_list[t] = Pawn
            /\ get_square_team(board, t) = pusher }

PassedOver(k) == (made[k].move.start + made[k].move.target) \div 2

\* The targets an en passant capture of the pawn pushed by move k can have:
\* the passed-over square while it is empty (the rule of chess and of the FEN
\* field), or the pushed pawn's own square (compute_pawn, rules.rs en_passant).
EnPassantTargets(k) ==
    { made[k].move.target }
        \cup (IF board.piece_list[PassedOver(k)] = PieceNone
              THEN { PassedOver(k) } ELSE {})

\* Entry a of the move set holds an en passant capture of the pawn of move k.
HasEnPassant(moves, a, k) ==
    \/ moves[a].bitboard \cap EnPassantTargets(k) # {}
    \/ \E i \in 1..Len(moves[a].moves) :
           moves[a].moves[i].target \in EnPassantTargets(k)

\* C11: on the ply right after a double push that lands beside an opposing
\* pawn, the move set get_legal_moves gives for that pawn contains an en
\* passant capture of the pushed pawn.
C11_EnPassantOffered ==
    (/\ last.op = "get_legal_moves"
     /\ last.err = "Ok"
     /\ pure
     /\ made # << >>
     /\ IsDoublePush(Len(made)))
        => \A a \in BesidePawns(Len(made)) :
               HasEnPassant(unwrap(board_legal_moves), a, Len(made))

\* C12: once a ply has been played after the double push without capturing
\* en passant, the move set of the pawn beside the pushed pawn holds no en
\* passant capture of it, on any later ply.
C12_EnPassantExpires ==
    (last.op = "get_legal_moves" /\ last.err = "Ok" /\ pure)
        => \A k \in 1..(Len(made) - 1) :
               IsDoublePush(k)
                   => \A a \in BesidePawns(k) :
                          ~HasEnPassant(unwrap(board_legal_moves), a, k)

\* A double push was followed by another ply, the pawn beside the pushed
\* pawn is still there, and its move set has just been generated.
C12_Witness ==
    /\ last.op = "get_legal_moves"
    /\ last.err = "Ok"
    /\ pure
    /\ \E k \in 1..(Len(made) - 1) :
           IsDoublePush(k) /\ BesidePawns(k) # {}

\* ------------------------------------- move generation per piece (C14-C17)
\* Positions for the claims about one piece's pseudolegal moves: the piece
\* under test on any square, a friendly and an enemy knight placed relative
\* to it, and the kings.  File and rank of a square; the square of a file
\* and rank.
FileOf(s) == s % 8
RankOf(s) == s \div 8
OnBoard(f, r) == f \in 0..7 /\ r \in 0..7
SquareAt(f, r) == r * 8 + f

\* Where the two knights stand: file and rank steps from the piece under
\* test, ranks counted in the direction its team's pawns advance.
BlockerPatterns ==
    << [ friend |-> << 0, 2 >>, enemy |-> << 1, 1 >> ],
       [ friend |-> << 0, 1 >>, enemy |-> << -1, 1 >> ],
       [ friend |-> << 1, 2 >>, enemy |-> << 0, 1 >> ],
       [ friend |-> << -2, -2 >>, enemy |-> << 2, 0 >> ],
       [ friend |-> << 1, 0 >>, enemy |-> << 3, 3 >> ] >>

Forward(team) == IF team = White THEN 1 ELSE -1

\* The square a step leads to from s, as a set: empty when it is off the board.
StepFrom(s, team, step) ==
    LET f == FileOf(s) + step[1]
        r == RankOf(s) + step[2] * Forward(team)
    IN  IF OnBoard(f, r) THEN { SquareAt(f, r) } ELSE {}

PieceLetters == [ p \in Pawn..King |->
                    CASE p = Pawn -> "p" [] p = Rook -> "r" [] p = Bishop -> "b"
                      [] p = Knight -> "n" [] p = Queen -> "q" [] OTHER -> "k" ]

LetterFor(team, p) ==
    IF team = White THEN to_ascii_uppercase(PieceLetters[p]) ELSE PieceLetters[p]

\* The first square of a list that is free.
RECURSIVE FirstFree(_, _, _)
FirstFree(candidates, used, i) ==
    IF candidates[i] \notin used THEN candidates[i]
    ELSE FirstFree(candidates, used, i + 1)

\* The placement of a layout: square -> letter, "" for an empty square.
LayoutPlacement(team, p, s, pattern) ==
    LET friends == StepFrom(s, team, pattern.friend)
        enemies == StepFrom(s, team, pattern.enemy) \ friends
        used == { s } \cup friends \cup enemies
        white_king == FirstFree(<< 4, 2, 6, 0 >>, used, 1)
        black_king == FirstFree(<< 60, 58, 62, 56 >>, used, 1)
    IN  [ x \in Squares |->
            IF x = s THEN LetterFor(team, p)
            ELSE IF x \in friends THEN LetterFor(team, Knight)
            ELSE IF x \in enemies THEN LetterFor(opponent(team), Knight)
            ELSE IF x = white_king /\ ~(p = King /\ team = White) THEN "K"
            ELSE IF x = black_king /\ ~(p = King /\ team = Black) THEN "k"
            ELSE "" ]

\* One rank of the placement field of a FEN, from file on, run empty squares
\* pending.
RECURSIVE RankField(_, _, _, _)
RankField(placement, rank, file, run) ==
    LET pending == IF run > 0 THEN << IntToString(run)[1] >> ELSE << >>
    IN  IF file = 8 THEN pending
        ELSE IF placement[SquareAt(file, rank)] = ""
        THEN RankField(placement, rank, file + 1, run + 1)
        ELSE pending \o << placement[SquareAt(file, rank)] >>
                 \o RankField(placement, rank, file + 1, 0)

RECURSIVE PlacementField(_, _)
PlacementField(placement, rank) ==
    RankField(placement, rank, 0, 0)
        \o (IF rank = 0 THEN << >>
            ELSE << "/" >> \o PlacementField(placement, rank - 1))

\* The FEN of a layout: the team of the piece under test to move, no
\* castling rights, no en passant square.
LayoutFen(team, p, s, pattern) ==
    PlacementField(LayoutPlacement(team, p, s, pattern), 7)
        \o << " ", IF team = White THEN "w" ELSE "b", " ", "-", " ", "-",
              " ", "0", " ", "1" >>

\* The squares the piece under test is put on: a pawn on ranks 2 to 7.
LayoutSquares(p) == IF p = Pawn THEN 8..55 ELSE Squares

InitPieceMoves ==
    \E team \in { White, Black }, p \in Pawn..King, i \in 1..Len(BlockerPatterns) :
        \E s \in LayoutSquares(p) :
            LET built == from_fen(LayoutFen(team, p, s, BlockerPatterns[i]))
            IN  /\ board_legal_moves = None
                /\ made = << >>
                /\ pure = TRUE
                /\ FromFenOutcome(built)
                /\ ops = 0
                /\ ada = AdaIdle
                /\ host = HostIdle

\* get_psuedolegal_moves on the held board; the caller keeps the result.
GetPsuedolegalMoves ==
    /\ board_legal_moves = None
    /\ ~Panics
    /\ \/ /\ board_legal_moves' = Some(get_psuedolegal_moves(board))
          /\ last' = Call("get_psuedolegal_moves", DefaultMove, "Ok", board,
                          board, FALSE)
       \/ /\ psuedolegal_overflows(board)
          /\ board_legal_moves' = None
          /\ last' = Call("get_psuedolegal_moves", DefaultMove, "Panic", board,
                          board, FALSE)
    /\ ops' = ops + 1
    /\ UNCHANGED << board, made, pure, ada, host >>

NextPieceMoves == GetPsuedolegalMoves

SpecPieceMoves == InitPieceMoves /\ [][NextPieceMoves]_vars

\* get_psuedolegal_moves has just been called on the held board.
Generated == last.op = "get_psuedolegal_moves" /\ is_some(board_legal_moves)

\* The squares holding a piece of the given types, and the targets an entry
\* of the generated move set names in its move list.
SquaresHolding(types) == { s \in Squares : board.piece_list[s] \in types }

MoveTargets(entry) == { entry.moves[i].target : i \in 1..Len(entry.moves) }

NonCastleTargets(entry) ==
    { entry.moves[i].target :
        i \in { j \in 1..Len(entry.moves) : ~entry.moves[j].is_castle } }

Occupied(s) == board.piece_list[s] # PieceNone

\* C14: a pawn's targets include the two-square push only from its team's
\* starting rank and only when the square in front of it and the destination
\* are both empty.
C14_DoublePushNeedsClearPath ==
    Generated =>
        \A s \in SquaresHolding({ Pawn }) :
            LET team == get_square_team(board, s)
                front == s + 8 * Forward(team)
                dest == s + 16 * Forward(team)
                entry == unwrap(board_legal_moves)[s]
            IN  (dest \in entry.bitboard \cup MoveTargets(entry))
                    => /\ RankOf(s) = (IF team = White THEN 1 ELSE 6)
                       /\ ~Occupied(front)
                       /\ ~Occupied(dest)

\* The squares one step from s in the 8 directions that are on the board.
Neighbours(s) ==
    { SquareAt(FileOf(s) + df, RankOf(s) + dr) :
        << df, dr >> \in { d \in (-1..1) \X (-1..1) :
                             /\ d # << 0, 0 >>
                             /\ OnBoard(FileOf(s) + d[1], RankOf(s) + d[2]) } }

\* C15: a king's non-castling targets are exactly the neighbouring squares on
\* the board that hold no piece of its own team.
C15_KingTargetsAreNeighbours ==
    Generated =>
        \A s \in SquaresHolding({ King }) :
            LET team == get_square_team(board, s)
                entry == unwrap(board_legal_moves)[s]
                expected == { n \in Neighbours(s) : get_square_team(board, n) # team }
            IN  /\ NonCastleTargets(entry) = expected
                /\ entry.bitboard = expected

\* The targets along one ray from s, from step k on: the empty squares up to
\* the first occupied one, and that one when it holds an enemy of team.
RECURSIVE RayTargets(_, _, _, _)
RayTargets(s, team, dir, k) ==
    LET f == FileOf(s) + k * dir[1]
        r == RankOf(s) + k * dir[2]
    IN  IF ~OnBoard(f, r) THEN {}
        ELSE IF ~Occupied(SquareAt(f, r))
        THEN { SquareAt(f, r) } \cup RayTargets(s, team, dir, k + 1)
        ELSE IF get_square_team(board, SquareAt(f, r)) # team
        THEN { SquareAt(f, r) }
        ELSE {}

RookRays == { << 0, 1 >>, << 0, -1 >>, << 1, 0 >>, << -1, 0 >> }
BishopRays == { << 1, 1 >>, << 1, -1 >>, << -1, 1 >>, << -1, -1 >> }

RaysOf(p) ==
    IF p = Rook THEN RookRays
    ELSE IF p = Bishop THEN BishopRays
    ELSE RookRays \cup BishopRays

\* C16: the targets of a rook, bishop or queen are, along each of its rays,
\* the empty squares up to the first occupied square and that square iff it
\* holds an enemy piece.
C16_SliderTargetsStopAtBlocker ==
    Generated =>
        \A s \in SquaresHolding({ Rook, Bishop, Queen }) :
            LET team == get_square_team(board, s)
                entry == unwrap(board_legal_moves)[s]
                expected == UNION { RayTargets(s, team, dir, 1) :
                                      dir \in RaysOf(board.piece_list[s]) }
            IN  /\ entry.bitboard = expected
                /\ MoveTargets(entry) = expected

\* The square k steps from s along a ray, as a set: empty off the board.
AlongRay(s, dir, k) ==
    IF OnBoard(FileOf(s) + k * dir[1], RankOf(s) + k * dir[2])
    THEN { SquareAt(FileOf(s) + k * dir[1], RankOf(s) + k * dir[2]) }
    ELSE {}

\* A rook, bishop or queen has a friendly piece on one ray and an enemy piece
\* on another, each two steps away behind an empty square, and its moves
\* were generated: the enemy's square is a target.
C16_Witness ==
    /\ Generated
    /\ \E s \in SquaresHolding({ Rook, Bishop, Queen }) :
           LET team == get_square_team(board, s)
               rays == RaysOf(board.piece_list[s])
           IN  /\ \E dir \in rays : \E b \in AlongRay(s, dir, 2) :
                      /\ get_square_team(board, b) = team
                      /\ \A n \in AlongRay(s, dir, 1) : ~Occupied(n)
               /\ \E dir \in rays : \E b \in AlongRay(s, dir, 2) :
                      /\ get_square_team(board, b) = opponent(team)
                      /\ \A n \in AlongRay(s, dir, 1) : ~Occupied(n)
                      /\ b \in unwrap(board_legal_moves)[s].bitboard

\* C17: every target of a knight is on the board and at most 2 files from
\* the knight; from file a or b none is on file g or h, and from file g or h
\* none is on file a or b.
C17_KnightNeverWraps ==
    Generated =>
        \A s \in SquaresHolding({ Knight }) :
            LET entry == unwrap(board_legal_moves)[s]
            IN  \A t \in entry.bitboard \cup MoveTargets(entry) :
                    /\ t \in Squares
                    /\ abs_diff(FileOf(t), FileOf(s)) <= 2
                    /\ (FileOf(s) \in { 0, 1 } => FileOf(t) \notin { 6, 7 })
                    /\ (FileOf(s) \in { 6, 7 } => FileOf(t) \notin { 0, 1 })

\* A knight on file a, b, g or h, two ranks from both edges, has had its
\* moves generated and has targets.
C17_Witness ==
    /\ Generated
    /\ \E s \in SquaresHolding({ Knight }) :
           /\ FileOf(s) \in { 0, 1, 6, 7 }
           /\ RankOf(s) \in 2..5
           /\ unwrap(board_legal_moves)[s].bitboard # {}

\* ----------------------------------------- piece_list and bitboards (C18)
\* The White and Black bitboards that have bit s set, as team and type.
BitboardsHolding(s) ==
    { tp \in { White, Black } \X PieceTypes : s \in board.board_pieces[tp[1]][tp[2]] }

\* Every move made so far, and every move unmade, was one get_legal_moves
\* returned for the side to move.
OnlyGeneratedMoves ==
    /\ \A i \in 1..Len(made) : made[i].from_legal
    /\ last.op \in { "make_move", "unmake_move" } => last.from_legal

\* C18: in every state reached from a FEN by make_move and unmake_move of
\* generated moves, piece_list[s] is a type T other than None iff exactly one
\* of the White and Black bitboards has bit s set and it is a bitboard of
\* type T, and piece_list[s] is None iff no such bitboard has bit s set.
C18_PieceListMatchesBitboards ==
    OnlyGeneratedMoves =>
        \A s \in Squares :
            IF board.piece_list[s] = PieceNone
            THEN BitboardsHolding(s) = {}
            ELSE \E team \in { White, Black } :
                     BitboardsHolding(s) = { << team, board.piece_list[s] >> }

\* ------------------------------------------- opponents and mate (C13, C19, C20)
\* Positions for the calls that answer a position: Black stalemated, Black
\* checkmated, Black with a single legal move, Black to move with White left
\* one reply or none, White able to castle, and the two pawn positions.
FenStalemate ==
    << "7", "k", "/", "5", "Q", "2", "/", "6", "K", "1", "/", "8",
       "/", "8", "/", "8", "/", "8", "/", "8", " ", "b", " ", "-", " ",
       "-", " ", "0", " ", "1" >>

FenCheckmate ==
    << "7", "k", "/", "6", "Q", "1", "/", "6", "K", "1", "/", "8",
       "/", "8", "/", "8", "/", "8", "/", "8", " ", "b", " ", "-", " ",
       "-", " ", "0", " ", "1" >>

FenSingleMove ==
    << "7", "k", "/", "8", "/", "5", "K", "2", "/", "8", "/", "8",
       "/", "8", "/", "8", "/", "6", "R", "1", " ", "b", " ", "-", " ",
       "-", " ", "0", " ", "1" >>

FenFewReplies ==
    << "7", "K", "/", "8", "/", "5", "k", "2", "/", "8", "/", "8",
       "/", "8", "/", "8", "/", "6", "r", "1", " ", "b", " ", "-", " ",
       "-", " ", "0", " ", "1" >>

FenCastleReady ==
    << "4", "k", "3", "/", "8", "/", "8", "/", "8", "/", "8", "/",
       "8", "/", "8", "/", "4", "K", "2", "R", " ", "w", " ", "K", " ",
       "-", " ", "0", " ", "1" >>

OpponentFens ==
    << FenStalemate, FenCheckmate, FenSingleMove, FenFewReplies,
       FenCastleReady, FenEnPassant, FenEnPassantBlack >>

\* Calls on the board in one run, the greatest search budget of Matt and the
\* greatest number of deepening rounds Ada finishes.
MaxOpponentOps == 3
MaxSearchBudget == 2
MaxAdaRounds == 2

Strategies ==
    { Randy } \cup { Matt(b) : b \in 1..MaxSearchBudget }
              \cup { Ada(r) : r \in 0..MaxAdaRounds }

StrategyNames == { "Randy", "Matt", "Ada" }

InitOpponent ==
    \E i \in 1..Len(OpponentFens) :
        LET built == from_fen(OpponentFens[i])
        IN  /\ board_legal_moves = None
            /\ made = << >>
            /\ pure = TRUE
            /\ FromFenOutcome(built)
            /\ ops = 0
            /\ ada = AdaIdle
            /\ host = HostIdle

OpponentGetLegalMoves == GetLegalMovesWithin(MaxOpponentOps)

\* prune_moves_for_team_mut on the held board, given the legal moves the
\* caller holds and the side to move.
PruneMovesMut ==
    /\ ops < MaxOpponentOps
    /\ ~Panics
    /\ is_some(board_legal_moves)
    /\ board' = prune_moves_for_team_mut(board, unwrap(board_legal_moves),
                                         board.active_team).board
    /\ last' = Call("prune_moves_for_team_mut", DefaultMove, "Ok", board,
                    board, FALSE)
    /\ ops' = ops + 1
    /\ UNCHANGED << board_legal_moves, made, pure, ada, host >>

\* get_move of one of the strategies on a copy of the held board, once in a
\* run: last.op names the strategy, last.err the outcome (Some, None, Panic,
\* Hang) and last.move the move returned.
GetMove ==
    /\ ops < MaxOpponentOps
    /\ ~Panics
    /\ last.op \notin StrategyNames
    /\ \E strategy \in Strategies :
           \E outcome \in get_move(strategy, board) :
               last' = Call(strategy.name,
                            IF is_some(outcome.result)
                            THEN unwrap(outcome.result) ELSE DefaultMove,
                            IF outcome.kind # "Returned" THEN outcome.kind
                            ELSE IF is_some(outcome.result) THEN "Some"
                            ELSE "None",
                            board, board, FALSE)
    /\ ops' = ops + 1
    /\ UNCHANGED << board, board_legal_moves, made, pure, ada, host >>

NextOpponent ==
    \/ OpponentGetLegalMoves
    \/ PruneMovesMut
    \/ GetMove

SpecOpponent == InitOpponent /\ [][NextOpponent]_vars

\* The side to move of b has no move in the list of legal moves.
HasNoLegalMove(b, moves) ==
    \A index \in Squares :
        get_square_team(b, index) = b.active_team => moves[index].moves = << >>

\* C13: after prune_moves_for_team_mut on the legal moves of the position and
\* the side to move, active_team_checkmate is true iff it was true before or
\* that side has no legal move and is_team_checked(active_team) holds; a
\* stalemate and a side with a legal move leave the flag as it was.
C13_CheckmateFlag ==
    last.op = "prune_moves_for_team_mut" =>
        LET before == last.before
            mated == /\ HasNoLegalMove(before, get_legal_moves(before))
                     /\ is_team_checked(before, before.active_team)
        IN  /\ board.active_team_checkmate
                <=> (before.active_team_checkmate \/ mated)
            /\ board = [before EXCEPT !.active_team_checkmate =
                            before.active_team_checkmate \/ mated]

\* The flag was set by the call on a checkmate.
C13_Witness ==
    /\ last.op = "prune_moves_for_team_mut"
    /\ board.active_team_checkmate
    /\ ~last.before.active_team_checkmate
    /\ HasNoLegalMove(last.before, get_legal_moves(last.before))

\* The call on a stalemate: no legal move, no check.
C13_Stalemate ==
    /\ last.op = "prune_moves_for_team_mut"
    /\ HasNoLegalMove(last.before, get_legal_moves(last.before))
    /\ ~is_team_checked(last.before, last.before.active_team)

\* The strategy of the last call answered with a move.
ReturnedMove == last.op \in StrategyNames /\ last.err = "Some"

\* m is in the list get_legal_moves gives for its start square, and the piece
\* on that square is of the side to move.
LegalForSideToMove(b, m) ==
    /\ get_square_team(b, m.start) = b.active_team
    /\ LET moves == legal_entry(b, square_entry(b, m.start)).moves
       IN  \E i \in 1..Len(moves) : moves[i] = m

\* C19: a move get_move of Randy, Matt or Ada returns is in the legal-move set
\* of the given position and moves a piece of the side to move.
C19_ReturnedMoveIsLegal ==
    ReturnedMove => LegalForSideToMove(last.before, last.move)

\* Ada, after deepening rounds on its own copy, answered with a move.
C19_Witness ==
    /\ ReturnedMove
    /\ last.op = "Ada"
    /\ LegalForSideToMove(last.before, last.move)
    /\ last.move.is_castle

\* C20: get_move of Randy, Matt or Ada on a position whose side to move has no
\* legal move, by checkmate or by stalemate, returns None.
C20_NoLegalMoveGivesNone ==
    (/\ last.op \in StrategyNames
     /\ HasNoLegalMove(last.before, get_legal_moves(last.before)))
        => last.err = "None"

\* ---------------------------------------- Ada's deepening loop (C21, C22)
\* get_move of Ada as the worker runs it, a step at a time, on a copy of the
\* held board.  The clock is a flag: whether the time since start_time is
\* over the time limit.  MaxAdaRounds bounds the rounds the loop goes through
\* before the limit is passed; a search_budget that has reached it without a
\* time test stands for every greater value.
AdaCall(begun) ==
    IF begun.board.active_team_checkmate
    THEN [AdaIdle EXCEPT !.phase = "Returned", !.board = begun.board,
                         !.legals = begun.legals]
    ELSE IF Len(begun.legals) = 1
    THEN [AdaIdle EXCEPT !.phase = "Returned", !.board = begun.board,
                         !.legals = begun.legals,
                         !.result = Some(begun.legals[1])]
    ELSE [AdaIdle EXCEPT !.phase = "Loop", !.board = begun.board,
                         !.legals = begun.legals]

\* Black to move, White's king left with one reply or a few.
FenCorneredKing ==
    << "7", "K", "/", "5", "k", "2", "/", "8", "/", "8", "/", "6", "p",
       "1", "/", "8", "/", "8", "/", "8", " ", "b", " ", "-", " ", "-",
       " ", "0", " ", "1" >>

\* The positions get_move of Ada is called on.
AdaFens ==
    << FenStalemate, FenCheckmate, FenSingleMove, FenCorneredKing,
       FenEnPassant, FenEnPassantBlack >>

InitAda ==
    \E i \in 1..Len(AdaFens) :
        LET built == from_fen(AdaFens[i])
        IN  /\ board_legal_moves = None
            /\ made = << >>
            /\ pure = TRUE
            /\ FromFenOutcome(built)
            /\ ops = 0
            /\ ada = AdaIdle
            /\ host = HostIdle

\* The call, up to the first round of the loop or an early return.
AdaBegun(begun) ==
    \/ ada' = AdaCall(begun)
    \/ /\ begun.overflow
       /\ ada' = [AdaIdle EXCEPT !.phase = "Panic", !.board = begun.board,
                                 !.legals = begun.legals]

AdaGetMove ==
    /\ ada.phase = "Idle"
    /\ ~Panics
    /\ AdaBegun(ada_begin(board))
    /\ last' = Call("Ada", DefaultMove, "Ok", board, board, FALSE)
    /\ UNCHANGED << board, board_legal_moves, made, pure, ops, host >>

\* The time since start_time passes the time limit.
Tick ==
    /\ ada.phase = "Loop"
    /\ ~ada.exceeded
    /\ ada' = [ada EXCEPT !.exceeded = TRUE]
    /\ UNCHANGED << board, board_legal_moves, made, last, pure, ops, host >>

\* The time test at the top of the 'legal_check loop finds the limit passed:
\* both loops are left and the result is drawn from the list kept.
AdaTimeTest ==
    /\ ada.phase = "Loop"
    /\ ada.index < Len(ada.legals)
    /\ ada.exceeded
    /\ \E result \in ada_result(ada_kept(ada.mapped_legals, ada.evals)) :
           ada' = [ada EXCEPT !.phase = "Returned", !.will_break = TRUE,
                              !.result = result]
    /\ UNCHANGED << board, board_legal_moves, made, last, pure, ops, host >>

\* The time test passes and the next legal move is evaluated; an overflow
\* panics where overflow checks are on and wraps where they are off.
AdaPush(pass) ==
    \/ ada' = [ada EXCEPT !.board = pass.board,
                          !.index = ada.index + 1,
                          !.evals = Append(ada.evals, pass.entry)]
    \/ /\ pass.overflows
       /\ ada' = [ada EXCEPT !.phase = "Panic", !.board = pass.board]

AdaEvaluate ==
    /\ ada.phase = "Loop"
    /\ ada.index < Len(ada.legals)
    /\ ~ada.exceeded
    /\ ada.search_budget < MaxAdaRounds
    /\ AdaPush(ada_evaluate(ada.board, ada.legals[ada.index + 1],
                            ada.search_budget))
    /\ UNCHANGED << board, board_legal_moves, made, last, pure, ops, host >>

\* The 'legal_check loop has gone through every legal move: the round is
\* kept and search_budget += 1, which overflows at i32::MAX.
AdaEndRound ==
    /\ ada.phase = "Loop"
    /\ ada.index = Len(ada.legals)
    /\ \/ ada' = [ada EXCEPT !.mapped_legals = ada.evals,
                             !.evals = << >>, !.index = 0,
                             !.search_budget =
                                 IF ada.search_budget < MaxAdaRounds
                                 THEN ada.search_budget + 1
                                 ELSE ada.search_budget]
       \/ /\ ada.search_budget = MaxAdaRounds
          /\ ada' = [ada EXCEPT !.phase = "Panic"]
    /\ UNCHANGED << board, board_legal_moves, made, last, pure, ops, host >>

NextAda ==
    \/ AdaGetMove
    \/ Tick
    \/ AdaTimeTest
    \/ AdaEvaluate
    \/ AdaEndRound

\* The clock keeps advancing, and the worker, once the limit is passed, keeps
\* running: a time test or an end of round that is due is executed.
SpecAda ==
    /\ InitAda
    /\ [][NextAda]_vars
    /\ WF_vars(Tick)
    /\ WF_vars(AdaTimeTest)
    /\ WF_vars(AdaEndRound)

\* C21: once the time limit has been passed, get_move of Ada returns: the
\* deepening loop does not go on for ever.
C21_AdaReturns ==
    (ada.phase = "Loop" /\ ada.exceeded) ~> (ada.phase = "Returned")

\* The time test has broken the loop at depth ada.search_budget.
AdaInterrupted == ada.phase = "Returned" /\ ada.will_break

\* The scores of round number round of the deepening loop on the given
\* position, a round that goes through every legal move: for each legal move
\* the value of evaluate_move times the sign of the side to move.
FullRound(b, round) ==
    LET begun == ada_begin(b)
        done == ada_rounds(begun.board, begun.legals, 0, round)[round]
    IN  [i \in 1..Len(begun.legals) |->
            wrapping_mul(done.values[i], done.signs[i])]

\* C22: when the time test stops Ada during the round at depth d, it returns
\* None iff d = 0, and otherwise the move that comes first, for the jiggles
\* drawn, among the scores of the round at depth d - 1, the last one that
\* went through every legal move.
C22_BestOfLastFullRound ==
    AdaInterrupted =>
        /\ ada.result = None <=> ada.search_budget = 0
        /\ ada.search_budget > 0 =>
               \E i \in ada_best(FullRound(board, ada.search_budget)) :
                   ada.result = Some(ada.legals[i])

\* Interrupted in the second round after scores had been pushed in it, the
\* move returned not being one of those scored in the interrupted round.
C22_Witness ==
    /\ AdaInterrupted
    /\ ada.search_budget = 1
    /\ ada.evals # << >>
    /\ is_some(ada.result)
    /\ \A k \in 1..Len(ada.evals) :
           ada.evals[k].legal_move # unwrap(ada.result)

\* ------------------------------- bitboard.rs functions (C23, C24, C26)
\* Calls of the functions of Bitboard on their own: last holds the call, its
\* input and what it came to; the board is not involved.
MaxBit == 65
MaxNotationLen == 2

NotationChars == { "a", "h", "i", "0", "1", "8", "9", "x" }

\* The strings over NotationChars of length n.
NotationsOfLen(n) == [1..n -> NotationChars]

IteratedBoards ==
    { {}, {0}, {0, 1}, {1, 62}, {63}, {0, 63}, Squares }

BitboardCall(op, input, outcome, origin, iterator, items) ==
    [ op |-> op, input |-> input, outcome |-> outcome, origin |-> origin,
      iterator |-> iterator, items |-> items ]

NoIterator == into_iter({})

InitBitboard ==
    /\ board = DefaultBoard
    /\ board_legal_moves = None
    /\ made = << >>
    /\ pure = TRUE
    /\ ops = 0
    /\ ada = AdaIdle
    /\ host = HostIdle
    /\ \/ \E bit \in 0..MaxBit :
              last = BitboardCall("index", bit, Returned(None), None,
                                  NoIterator, << >>)
       \/ \E n \in 0..MaxNotationLen : \E notation \in NotationsOfLen(n) :
              last = BitboardCall("notation", notation, Returned(None), None,
                                  NoIterator, << >>)
       \/ \E bitboard \in IteratedBoards :
              last = BitboardCall("bitboard", bitboard, Returned(None), None,
                                  NoIterator, << >>)

\* bit_idx_to_al_notation(bit)
BitIdxToAlNotation ==
    /\ last.op = "index"
    /\ last' = BitboardCall("bit_idx_to_al_notation", last.input,
                            Returned(bit_idx_to_al_notation(last.input)),
                            None, NoIterator, << >>)
    /\ UNCHANGED << board, board_legal_moves, made, pure, ops, ada, host >>

\* al_notation_to_bit_idx on a string of the caller's.
AlNotationToBitIdx ==
    /\ last.op = "notation"
    /\ \E outcome \in al_notation_to_bit_idx(last.input) :
           last' = BitboardCall("al_notation_to_bit_idx", last.input, outcome,
                                None, NoIterator, << >>)
    /\ UNCHANGED << board, board_legal_moves, made, pure, ops, ada, host >>

\* al_notation_to_bit_idx on the string bit_idx_to_al_notation returned.
AlNotationRoundTrip ==
    /\ last.op = "bit_idx_to_al_notation"
    /\ is_some(last.outcome.result)
    /\ \E outcome \in al_notation_to_bit_idx(unwrap(last.outcome.result)) :
           last' = BitboardCall("al_notation_to_bit_idx",
                                unwrap(last.outcome.result), outcome,
                                Some(last.input), NoIterator, << >>)
    /\ UNCHANGED << board, board_legal_moves, made, pure, ops, ada, host >>

\* bitboard.into_iter()
IntoIter ==
    /\ last.op = "bitboard"
    /\ last' = BitboardCall("into_iter", last.input, Returned(None), None,
                            into_iter(last.input), << >>)
    /\ UNCHANGED << board, board_legal_moves, made, pure, ops, ada, host >>

\* next() on the iterator, until it has returned None: items are the squares
\* an item has been given for so far, each with the item.
IteratorNext ==
    /\ last.op \in { "into_iter", "next" }
    /\ last.op = "next" => is_some(last.outcome.result)
    /\ LET step == iterator_next(last.iterator)
       IN  last' = BitboardCall("next", last.input, Returned(step.item), None,
                                step.iterator,
                                IF is_some(step.item)
                                THEN Append(last.items, unwrap(step.item))
                                ELSE last.items)
    /\ UNCHANGED << board, board_legal_moves, made, pure, ops, ada, host >>

NextBitboard ==
    \/ BitIdxToAlNotation
    \/ AlNotationToBitIdx
    \/ AlNotationRoundTrip
    \/ IntoIter
    \/ IteratorNext

SpecBitboard == InitBitboard /\ [][NextBitboard]_vars

\* C23: for every square s of 0..63, bit_idx_to_al_notation(s) is the file
\* letter of s % 8 followed by the digit of s / 8 + 1, and
\* al_notation_to_bit_idx of that string returns Some(s).
C23_NotationRoundTrip ==
    /\ (last.op = "bit_idx_to_al_notation" /\ last.input \in Squares) =>
           last.outcome.result =
               Some(<< FileLetters[(last.input % 8) + 1],
                       DigitChars[(last.input \div 8) + 2] >>)
    /\ (/\ last.op = "al_notation_to_bit_idx"
        /\ is_some(last.origin)
        /\ unwrap(last.origin) \in Squares) =>
           last.outcome = Returned(Some(u32(unwrap(last.origin))))

\* The round trip of h8.
C23_Witness ==
    /\ last.op = "al_notation_to_bit_idx"
    /\ last.origin = Some(63)
    /\ last.input = << "h", "8" >>
    /\ last.outcome = Returned(Some(u32(63)))

\* A string al_notation_to_bit_idx is to accept: a file letter of a..h and
\* a rank digit of 1..8.
WellFormedNotation(notation) ==
    /\ Len(notation) = 2
    /\ \E f \in 1..8 : FileLetters[f] = notation[1]
    /\ \E d \in 2..9 : DigitChars[d] = notation[2]

\* C24: al_notation_to_bit_idx returns None, without a panic, for the empty
\* string, a string of one character, a file letter outside a..h, a rank
\* digit of 0 or 9 and a rank that is no digit, and never returns Some(i)
\* with i >= 64.
C24_InvalidNotationGivesNone ==
    last.op = "al_notation_to_bit_idx" =>
        /\ ~WellFormedNotation(last.input) => last.outcome = Returned(None)
        /\ (last.outcome.kind = "Returned" /\ is_some(last.outcome.result)) =>
               /\ unwrap(last.outcome.result).hi = 0
               /\ unwrap(last.outcome.result).lo < 64

\* C26: iterating a bitboard gives the bits of the squares 0, 1, 2, ... in
\* that order, item k being the bit of square k - 1, and ends after the item
\* of square 63, so that every set bit, bit 0 among them, is reported once.
C26_IteratorVisitsEverySquare ==
    last.op = "next" =>
        /\ \A k \in 1..Len(last.items) :
               last.items[k] = ((k - 1) \in last.input)
        /\ last.outcome.result = None => Len(last.items) = 64

\* ----------------------------------------------- FEN round trip (C25)
\* from_fen and then as_fen on well-formed FEN strings of six fields, put
\* together from the fields below.
PlacementStart ==
    << "r", "n", "b", "q", "k", "b", "n", "r", "/", "p", "p", "p", "p",
       "p", "p", "p", "p", "/", "8", "/", "8", "/", "8", "/", "8", "/",
       "P", "P", "P", "P", "P", "P", "P", "P", "/", "R", "N", "B", "Q",
       "K", "B", "N", "R" >>

PlacementCastle ==
    << "r", "3", "k", "2", "r", "/", "8", "/", "8", "/", "8", "/", "8",
       "/", "8", "/", "8", "/", "R", "3", "K", "2", "R" >>

PlacementPawns ==
    << "4", "k", "3", "/", "8", "/", "8", "/", "8", "/", "1", "p", "6",
       "/", "8", "/", "2", "P", "5", "/", "4", "K", "3" >>

\* A black pawn on the second rank (see FenLowPawn).
PlacementLowPawn ==
    << "4", "k", "3", "/", "8", "/", "8", "/", "8", "/", "8", "/", "8",
       "/", "1", "p", "6", "/", "4", "K", "3" >>

\* Placements with the castling fields used with them.
PlacedFields ==
    { << PlacementStart, castling >> :
          castling \in { << "-" >>, << "K", "Q", "k", "q" >>, << "K", "q" >>,
                         << "k" >> } }
    \cup { << PlacementCastle, castling >> :
               castling \in { << "-" >>, << "K", "Q", "k", "q" >>,
                              << "Q", "k" >>, << "K" >> } }
    \cup { << PlacementPawns, << "-" >> >>, << PlacementLowPawn, << "-" >> >> }

ColourFields == { << "w" >>, << "b" >> }
EnPassantFields == { << "-" >>, << "e", "3" >>, << "c", "6" >> }
HalfmoveFields == { << "0" >>, << "1", "2" >> }
FullmoveFields == { << "1" >>, << "4", "0" >> }

FenInputs ==
    { placed[1] \o << " " >> \o colour \o << " " >> \o placed[2] \o << " " >>
        \o en_passant \o << " " >> \o halfmove \o << " " >> \o fullmove :
          placed \in PlacedFields, colour \in ColourFields,
          en_passant \in EnPassantFields, halfmove \in HalfmoveFields,
          fullmove \in FullmoveFields }

FenCall(op, input, err, output) ==
    [ op |-> op, input |-> input, err |-> err, output |-> output ]

InitFen ==
    /\ board = DefaultBoard
    /\ board_legal_moves = None
    /\ made = << >>
    /\ pure = TRUE
    /\ ops = 0
    /\ ada = AdaIdle
    /\ host = HostIdle
    /\ \E fen \in FenInputs : last = FenCall("fen", fen, "Ok", << >>)

\* BoardState::from_fen(fen): the caller keeps the board on success.
FromFen ==
    /\ last.op = "fen"
    /\ LET built == from_fen(last.input)
       IN  \/ /\ board' = IF built.err = "Ok" THEN built.board ELSE board
              /\ last' = FenCall("from_fen", last.input, built.err, << >>)
           \/ /\ built.overflow
              /\ board' = board
              /\ last' = FenCall("from_fen", last.input, "Panic", << >>)
    /\ UNCHANGED << board_legal_moves, made, pure, ops, ada, host >>

\* as_fen() on the board from_fen gave.
AsFen ==
    /\ last.op = "from_fen"
    /\ last.err = "Ok"
    /\ last' = FenCall("as_fen", last.input, "Ok", as_fen(board))
    /\ UNCHANGED << board, board_legal_moves, made, pure, ops, ada, host >>

NextFen ==
    \/ FromFen
    \/ AsFen

SpecFen == InitFen /\ [][NextFen]_vars

\* C25: from_fen succeeds on a well-formed FEN string of six fields and
\* as_fen of the board it gives is that string again.
C25_FenRoundTrip ==
    /\ last.op = "from_fen" => last.err = "Ok"
    /\ last.op = "as_fen" => last.output = last.input

\* ------------------------------------------------ aggregates and caches
\* C27: after every successful make_move and unmake_move the bitboard of
\* each piece type for Both is the union of White's and Black's, so the
\* coverage of Both is the occupancy of the board.
C27_BothIsUnionOfTeams ==
    (last.op \in { "make_move", "unmake_move" } /\ last.err = "Ok") =>
        /\ \A T \in PieceTypes :
               board.board_pieces[Both][T] =
                   board.board_pieces[White][T] \cup board.board_pieces[Black][T]
        /\ get_team_coverage(board, Both) =
               get_team_coverage(board, White) \cup get_team_coverage(board, Black)

\* C28: after from_fen and after every successful make_move or unmake_move
\* the capture bitboards are a function of the piece placement alone:
\* recomputing them changes nothing, and recomputing them on the same
\* placement under any other castling rights, or from empty capture
\* bitboards, gives the same two bitboards.
C28_CaptureCacheIsFunctionOfPlacement ==
    (last.op \in { "from_fen", "make_move", "unmake_move" } /\ last.err = "Ok") =>
        /\ update_capture_bitboards(board).board.capture_bitboard
               = board.capture_bitboard
        /\ \A castling_rights \in SUBSET (0..3) :
               update_capture_bitboards(
                   [board EXCEPT !.castling_rights = castling_rights])
                   .board.capture_bitboard
                   = board.capture_bitboard
        /\ update_capture_bitboards(
               [board EXCEPT !.capture_bitboard = [t \in {White, Black} |-> {}]])
               .board.capture_bitboard
               = board.capture_bitboard

\* ------------------------------------------- edge distances and ray offsets
\* One run of the 'raycast_check loop of compute_slider on a board with no
\* piece in the way: the origin square, the direction index, the loop bound
\* edge_compute[square][index], the loop counter and the square it computed.
RayCall(op, square, index, indexed_direction, raycast, possible_target) ==
    [ op |-> op, square |-> square, index |-> index,
      indexed_direction |-> indexed_direction, raycast |-> raycast,
      possible_target |-> possible_target ]

\* Every origin square and every direction index of DIRECTION_OFFSETS, the
\* loop not yet entered.
InitEdges ==
    /\ board = DefaultBoard
    /\ board_legal_moves = None
    /\ made = << >>
    /\ pure = TRUE
    /\ ops = 0
    /\ ada = AdaIdle
    /\ host = HostIdle
    /\ \E square \in Squares : \E index \in 0..7 :
           last = RayCall("direction", square, index,
                          edge_compute[square][index + 1], 0, square)

\* One iteration of "for raycast in 1..=indexed_direction": the target is
\* the origin plus raycast times the offset, and a target outside the
\* piece list breaks the loop.
Raycast ==
    /\ last.op \in { "direction", "raycast" }
    /\ last.raycast < last.indexed_direction
    /\ LET raycast == last.raycast + 1
           possible_target ==
               last.square + (raycast * DIRECTION_OFFSETS[last.index + 1])
       IN  last' = RayCall(IF possible_target \in Squares
                           THEN "raycast" ELSE "break",
                           last.square, last.index, last.indexed_direction,
                           raycast, possible_target)
    /\ UNCHANGED << board, board_legal_moves, made, pure, ops, ada, host >>

NextEdges == Raycast

SpecEdges == InitEdges /\ [][NextEdges]_vars

\* The file and rank steps of the eight compass directions in the order
\* N, S, E, W, NE, SE, NW, SW.
CompassSteps ==
    << << 0, 1 >>, << 0, -1 >>, << 1, 0 >>, << -1, 0 >>,
       << 1, 1 >>, << 1, -1 >>, << -1, 1 >>, << -1, -1 >> >>

\* The file and the rank reached k steps from square s in direction d.
CompassFile(s, d, k) == (s % 8) + k * CompassSteps[d + 1][1]
CompassRank(s, d, k) == (s \div 8) + k * CompassSteps[d + 1][2]

\* C29: every square the ray loop computes within the edge distance of its
\* direction is on the board and is the square k compass steps from the
\* origin, and one step beyond the edge distance leaves the board.
C29_EdgesMatchOffsets ==
    /\ last.op \in { "raycast", "break" } =>
           /\ last.possible_target \in Squares
           /\ CompassFile(last.square, last.index, last.raycast) \in 0..7
           /\ CompassRank(last.square, last.index, last.raycast) \in 0..7
           /\ last.possible_target % 8 =
                  CompassFile(last.square, last.index, last.raycast)
           /\ last.possible_target \div 8 =
                  CompassRank(last.square, last.index, last.raycast)
    /\ last.op \in { "direction", "raycast", "break" } =>
           \/ CompassFile(last.square, last.index, last.indexed_direction + 1)
                  \notin 0..7
           \/ CompassRank(last.square, last.index, last.indexed_direction + 1)
                  \notin 0..7

\* A diagonal ray walked to its last square, three or more steps long.
C29_Witness ==
    /\ last.op = "raycast"
    /\ last.index >= 4
    /\ last.raycast = last.indexed_direction
    /\ last.raycast >= 3

\* ------------------------------------------------- side to move and clocks
\* C30: a successful make_move hands the move to the other of White and
\* Black, adds one to ply_clock, and adds one to turn_clock exactly when
\* Black was to move before the call; a make_move that returns an error
\* leaves active_team, ply_clock and turn_clock as they were.
C30_MakeMoveClocks ==
    last.op = "make_move" =>
        IF last.err = "Ok"
        THEN /\ last.before.active_team \in { White, Black }
             /\ board.active_team \in { White, Black }
             /\ board.active_team # last.before.active_team
             /\ board.ply_clock = last.before.ply_clock + 1
             /\ board.turn_clock =
                    last.before.turn_clock
                        + (IF last.before.active_team = Black THEN 1 ELSE 0)
        ELSE /\ board.active_team = last.before.active_team
             /\ board.ply_clock = last.before.ply_clock
             /\ board.turn_clock = last.before.turn_clock

\* Black has made a move, so the full-move counter went up.
C30_Witness ==
    /\ last.op = "make_move"
    /\ last.err = "Ok"
    /\ last.before.active_team = Black
    /\ board.active_team = White
    /\ board.turn_clock = last.before.turn_clock + 1

\* ------------------------------------------------------ the search function
\* White to move with a pawn move that mates (g6-g7), and the mirror
\* position with Black to move (g3-g2).
FenMateInOne ==
    << "7", "k", "/", "5", "P", "2", "/", "6", "P", "K", "/", "8", "/",
       "8", "/", "8", "/", "8", "/", "8", " ", "w", " ", "-", " ", "-",
       " ", "0", " ", "1" >>

FenMateInOneBlack ==
    << "8", "/", "8", "/", "8", "/", "8", "/", "8", "/", "6", "p", "k",
       "/", "5", "p", "2", "/", "7", "K", " ", "b", " ", "-", " ", "-",
       " ", "0", " ", "1" >>

\* The sign the root loops of Matt and Ada multiply the value with: 1 for a
\* White root, -1 for a Black root.
root_sign(team) == IF team = White THEN 1 ELSE -1

\* 4k3/8/8/8/8/8/P7/R3K3 w Q - 0 1
\* The rook moves come before the castle e1-c1 in the list of legal moves,
\* and each evaluate_move of one clears White's queenside right.
FenRookThenCastle ==
    << "4", "k", "3", "/", "8", "/", "8", "/", "8", "/", "8", "/", "8",
       "/", "P", "7", "/", "R", "3", "K", "3", " ", "w", " ", "Q", " ",
       "-", " ", "0", " ", "1" >>

SearchFens ==
    << FenMateInOne, FenMateInOneBlack, FenCorneredKing, FenSingleMove,
       FenEnPassant, FenEnPassantBlack, FenRookThenCastle >>

\* The number of evaluate_move calls the root loop of one get_move makes in
\* a run, and the greatest search_budget it passes.
MaxSearchOps == 30
MaxEvalBudget == 1

\* The strategies whose get_move calls evaluate_move: Matt with every budget
\* that passes 0..MaxEvalBudget, and Ada finishing the rounds of those
\* budgets before the time test stops it.
SearchStrategies ==
    { Matt(search_budget) : search_budget \in 1..(MaxEvalBudget + 1) }
        \cup { Ada(MaxEvalBudget + 1) }

\* The locals of the root loop of get_move and its last evaluate_move call:
\* the list of legal moves computed once before the loop, the number of
\* them the current round has evaluated, the search_budget the calls of the
\* round are given, and of the last call the move, the board before it, the
\* board it left and the value returned.  The op is "get_move" before the
\* first call, "end_round" when Ada's loop has finished a round, and
\* "panic" when an integer operation overflowed and the build with overflow
\* checks has panicked.
SearchCall(op, strategy, legals, index, move, search_budget, before, after, value) ==
    [ op |-> op, strategy |-> strategy, legals |-> legals, index |-> index,
      move |-> move, search_budget |-> search_budget, before |-> before,
      after |-> after, value |-> value ]

\* get_move up to its root loop.  Ada prunes with
\* prune_moves_for_team_mut on its own board (mod.rs 289-290), Matt with
\* prune_moves_for_team (396); Matt passes *search_budget - 1 (408), Ada
\* starts at 0 (302).
SearchBegun(built, strategy, begun) ==
    /\ board = begun.board
    /\ \/ last = SearchCall("get_move", strategy, begun.legals, 0,
                            DefaultMove,
                            IF strategy.name = "Matt"
                            THEN strategy.search_budget - 1 ELSE 0,
                            begun.board, begun.board, 0)
       \/ /\ built.overflow \/ begun.overflow
          /\ last = SearchCall("panic", strategy, begun.legals, 0,
                               DefaultMove, 0, begun.board, begun.board, 0)

InitSearch ==
    \E i \in 1..Len(SearchFens) : \E strategy \in SearchStrategies :
        LET built == from_fen(SearchFens[i])
        IN  /\ built.err = "Ok"
            /\ board_legal_moves = None
            /\ made = << >>
            /\ pure = TRUE
            /\ SearchBegun(built, strategy,
                           IF strategy.name = "Ada"
                           THEN ada_begin(built.board)
                           ELSE [ board |-> built.board,
                                  legals |-> prune_moves_for_team(
                                                 built.board,
                                                 get_legal_moves(built.board),
                                                 built.board.active_team),
                                  overflow |-> get_legal_moves_overflows(
                                                   built.board) ])
            /\ ops = 0
            /\ ada = AdaIdle
            /\ host = HostIdle

\* get_move has not returned before its root loop: Ada returns on the
\* checkmate flag (mod.rs 296-298), both return on a single legal move
\* (299-301, 398-400).
SearchLoops ==
    /\ last.op # "panic"
    /\ Len(last.legals) # 1
    /\ last.strategy.name = "Ada" => ~board.active_team_checkmate

\* What the call leaves behind.  Ada passes its own board (mod.rs 329-335),
\* which stays as evaluate_move leaves it; Matt passes a clone of its board
\* (404-410), which is dropped.  The value is multiplied by the sign of the
\* side to move, and Ada adds the jiggle (335-343).
EvaluateMoveDone(ava_move, scored) ==
    /\ \/ /\ board' = IF last.strategy.name = "Ada" THEN scored.board
                      ELSE board
          /\ last' = [last EXCEPT !.op = "evaluate_move",
                                  !.index = @ + 1,
                                  !.move = ava_move,
                                  !.before = board,
                                  !.after = scored.board,
                                  !.value = scored.value]
       \/ /\ LET sign == root_sign(IF last.strategy.name = "Ada"
                                   THEN scored.board.active_team
                                   ELSE board.active_team)
             IN  \/ scored.overflow
                 \/ mul_overflows(scored.value, sign)
                 \/ /\ last.strategy.name = "Ada"
                    /\ \E jiggle \in Jiggles :
                           add_overflows(wrapping_mul(scored.value, sign),
                                         jiggle)
          /\ board' = board
          /\ last' = [last EXCEPT !.op = "panic", !.move = ava_move,
                                  !.before = board, !.after = board,
                                  !.value = 0]
    /\ ops' = ops + 1
    /\ UNCHANGED << board_legal_moves, made, pure, ada, host >>

\* The body of the root loop: evaluate_move on the next move of the list
\* computed before the loop, on the board as the calls before it left it,
\* with the bounds (i32::MIN, i32::MAX).
EvaluateMove ==
    /\ ops < MaxSearchOps
    /\ SearchLoops
    /\ last.index < Len(last.legals)
    /\ last.search_budget <= MaxEvalBudget
    /\ EvaluateMoveDone(last.legals[last.index + 1],
                        evaluate_move(board, last.legals[last.index + 1],
                                      last.search_budget, I32_MIN, I32_MAX))

\* Ada's 'legal_check loop has gone through the list: search_budget += 1 and
\* the next round starts with the first move again (mod.rs 345-349).
SearchEndRound ==
    /\ SearchLoops
    /\ last.strategy.name = "Ada"
    /\ last.index = Len(last.legals)
    /\ last.search_budget + 1 < last.strategy.rounds
    /\ last' = [last EXCEPT !.op = "end_round", !.index = 0,
                            !.search_budget = @ + 1]
    /\ UNCHANGED << board, board_legal_moves, made, pure, ops, ada, host >>

NextSearch ==
    \/ EvaluateMove
    \/ SearchEndRound

SpecSearch == InitSearch /\ [][NextSearch]_vars

\* C31: when evaluate_move returns for a legal move of the side to move, the
\* board is in every field the board it was before the call.
C31_EvaluateMoveRestoresBoard ==
    (/\ last.op = "evaluate_move"
     /\ LegalForSideToMove(last.before, last.move)) =>
        last.after = last.before

\* C32: for a search budget of 1 or more and a move that leaves the side to
\* move at least one legal reply, the value evaluate_move returns is the
\* minimax value of the position after the move searched that many further
\* plies, the score of every reply counted.
C32_ValueIsMinimax ==
    (/\ last.op = "evaluate_move"
     /\ last.search_budget >= 1
     /\ replies_after(last.before, last.move) >= 1) =>
        last.value = minimax(last.before, last.move, last.search_budget)

\* C33: when evaluate_move with budget 0 is given a move that mates, the
\* score it returns holds the checkmate term, 100000000 in favour of the
\* side that moved, and is better for that side than the score of every
\* legal move of the same position that does not mate.
C33_MateIsScored ==
    (/\ last.op = "evaluate_move"
     /\ last.search_budget = 0
     /\ is_mating(last.before, last.move)) =>
        LET who_to_play == IF last.before.active_team = White THEN 1 ELSE -1
            legals == prune_moves_for_team(last.before,
                                           get_legal_moves(last.before),
                                           last.before.active_team)
        IN  /\ last.value =
                   score_without_mate(last.before, last.move, who_to_play)
                       + 100000000 * who_to_play
            /\ \A i \in 1..Len(legals) :
                   ~is_mating(last.before, legals[i]) =>
                       who_to_play * last.value >
                           who_to_play * evaluate_move(last.before, legals[i], 0,
                                                       I32_MIN, I32_MAX).value

\* ------------------------------------------------------- attacked squares
\* C34: opponent_attacking_square(s) is true exactly for the squares in the
\* capture bitboard of the team that is not to move, whether or not the
\* team to move attacks them too.
C34_OpponentAttackingSquare ==
    \A pos \in Squares :
        opponent_attacking_square(board, pos)
            <=> pos \in board.capture_bitboard[opponent(board.active_team)]

\* ------------------------------------------------ shape of the move list
\* C35: get_psuedolegal_moves returns one entry for each of the 64 squares;
\* every move of entry i starts on square i, the bitboard of an entry is the
\* set of targets of its moves, and the entry of an empty square has an
\* empty bitboard and no move.
C35_MoveListShape ==
    Generated =>
        LET move_list == unwrap(board_legal_moves)
        IN  /\ DOMAIN move_list = Squares
            /\ \A index \in Squares :
                   /\ \A k \in 1..Len(move_list[index].moves) :
                          move_list[index].moves[k].start = index
                   /\ move_list[index].bitboard = MoveTargets(move_list[index])
                   /\ board.piece_list[index] = PieceNone =>
                          /\ move_list[index].bitboard = {}
                          /\ move_list[index].moves = << >>

\* ------------------------------------------------------------ the host loop
\* MainState and the event loop of the window: update, draw and the mouse
\* handlers run one at a time on the event-loop thread, in any order, and a
\* spawned search worker runs beside them.  board and board_legal_moves are
\* the fields of MainState of those names; host holds the others that the
\* handlers read or write, and the workers: each has the board it was given
\* by value, its state, and the channel its result is sent on.
HostFens == << FenEnPassant, FenEnPassantBlack, FenStalemate >>

\* The opponents MainState::new is given (main.rs 71 passes Ada(400 ms)):
\* Randy, and Ada whose time limit has passed before its first round is
\* over, which returns None whatever the position.
HostOpponents == { Randy, Ada(0) }

\* The games played: every position with either team for the player and
\* each of these opponents, and the second position, where Black is to
\* move, with the player as White against Ada that finishes one round.
HostGames ==
    { [ fen |-> i, plr_team |-> plr_team, opponent |-> opponent_given ] :
          i \in 1..Len(HostFens), plr_team \in { White, Black },
          opponent_given \in HostOpponents }
        \cup { [ fen |-> 2, plr_team |-> White, opponent |-> Ada(1) ] }

\* The squares the mouse is pressed and released on: c2, b3, c3 and b4.
MouseSquares == { 10, 17, 18, 25 }

\* The number of moves draw applies in a run.
MaxHostMoves == 2

HostEvent(op, applied) == [ op |-> op, applied |-> applied ]

\* MainState::new.  The phase is "Panicked" when from_fen or get_legal_moves
\* overflowed and the build with overflow checks has panicked in the main
\* thread.
InitHost ==
    \E game \in HostGames :
        LET built == from_fen(HostFens[game.fen])
        IN  /\ built.err = "Ok"
            /\ board = built.board
            /\ board_legal_moves = Some(get_legal_moves(built.board))
            /\ made = << >>
            /\ pure = TRUE
            /\ last = HostEvent("new", FALSE)
            /\ ops = 0
            /\ ada = AdaIdle
            /\ \E phase \in { "Running" } \cup
                     (IF built.overflow \/ get_legal_moves_overflows(built.board)
                      THEN { "Panicked" } ELSE {}) :
                   host = [ phase |-> phase, player_team |-> game.plr_team,
                            opponent |-> game.opponent,
                            selected_square |-> None,
                            queued_move |-> None, opp_thread |-> None,
                            workers |-> << >> ]

\* MainState::update after the spawn test: try_recv on the held receiver
\* when the side to move is not the player's.  A received None ends the
\* game and leaves queued_move None.
UpdateReceive(workers, opp_thread) ==
    LET receives == /\ host.player_team # board.active_team
                    /\ is_some(opp_thread)
                    /\ workers[unwrap(opp_thread)].channel # << >>
    IN  /\ host' = [host EXCEPT
                      !.workers =
                          IF receives
                          THEN [workers EXCEPT
                                  ![unwrap(opp_thread)].channel = Tail(@)]
                          ELSE workers,
                      !.opp_thread = opp_thread,
                      !.queued_move =
                          IF receives
                          THEN workers[unwrap(opp_thread)].channel[1]
                          ELSE @]
        /\ last' = HostEvent("update", FALSE)
        /\ UNCHANGED << board, board_legal_moves, made, pure, ops, ada >>

\* The task update spawns (ui.rs 459-464), run to its end: get_move of the
\* opponent MainState was given on the worker's board, then send.  The
\* worker holds the outcomes that get_move can have; a get_move that
\* panics ends the task, and one that never returns leaves it as it is.
\* The send panics when MainState has dropped the receiver.
task_ends(worker, receiver_held) ==
    { IF outcome.kind = "Returned" /\ receiver_held
      THEN [worker EXCEPT !.state = "sent", !.channel = << outcome.result >>]
      ELSE IF outcome.kind = "Hang"
      THEN worker
      ELSE [worker EXCEPT !.state = "panicked"] :
          outcome \in worker.outcomes }

\* MainState::update after tokio::spawn: the task starts on a thread of the
\* runtime, and the same call goes on to try_recv.  By then the task is
\* still running, or has returned from get_move and sent its move (the
\* receiver is alive, so the send succeeds and try_recv takes the move), or
\* has panicked and dropped the sender.
HostSpawned(spawned) ==
    \E worker \in { spawned } \cup task_ends(spawned, TRUE) :
        UpdateReceive(Append(host.workers, worker),
                      Some(Len(host.workers) + 1))

\* MainState::update: the worker gets a clone of the board, a copy of the
\* opponent and the sender, MainState keeps the receiver.
HostUpdate ==
    /\ host.phase = "Running"
    /\ IF update_spawns(host, board)
       THEN HostSpawned([ board |-> board, state |-> "running",
                          channel |-> << >>,
                          outcomes |-> get_move(host.opponent, board) ])
       ELSE UpdateReceive(host.workers, host.opp_thread)

\* The task of worker i finishes between two calls of the handlers.
WorkerGetMove ==
    /\ host.phase = "Running"
    /\ \E i \in 1..Len(host.workers) :
           /\ host.workers[i].state = "running"
           /\ \E worker \in task_ends(host.workers[i],
                                       host.opp_thread = Some(i)) :
                  /\ worker # host.workers[i]
                  /\ host' = [host EXCEPT !.workers[i] = worker]
    /\ last' = HostEvent("worker", FALSE)
    /\ UNCHANGED << board, board_legal_moves, made, pure, ops, ada >>

\* MainState::mouse_button_down_event with the left button
MouseButtonDown ==
    /\ host.phase = "Running"
    /\ \E square_idx \in MouseSquares :
           host' = [host EXCEPT !.selected_square = Some(square_idx)]
    /\ last' = HostEvent("mouse_button_down", FALSE)
    /\ UNCHANGED << board, board_legal_moves, made, pure, ops, ada >>

\* find(|fmove| fmove.target == target_square_idx).copied()
find_target(moves, target_square_idx) ==
    LET hits == SelectSeq(moves, LAMBDA fmove : fmove.target = target_square_idx)
    IN  IF hits = << >> THEN None ELSE Some(hits[1])

\* MainState::mouse_button_up_event with the left button and no queued move
MouseButtonUp ==
    /\ host.phase = "Running"
    /\ host.queued_move = None
    /\ \E target_square_idx \in MouseSquares :
           host' = [host EXCEPT
                      !.queued_move =
                          IF /\ is_some(host.selected_square)
                             /\ is_some(board_legal_moves)
                             /\ host.player_team = board.active_team
                             /\ get_square_team(board, unwrap(host.selected_square))
                                    = host.player_team
                          THEN find_target(
                                   unwrap(board_legal_moves)
                                       [unwrap(host.selected_square)].moves,
                                   target_square_idx)
                          ELSE @,
                      !.selected_square = None]
    /\ last' = HostEvent("mouse_button_up", FALSE)
    /\ UNCHANGED << board, board_legal_moves, made, pure, ops, ada >>

\* MainState::draw with a queued move, after its make_move: the moves are
\* generated again when the move was made, the receiver is dropped when
\* the side to move is the player's, and the queue is emptied.  When the
\* move was made and play_sound returns Err (ui.rs 568), draw returns there
\* with the board moved and nothing else written.
DrawQueued(move_att) ==
    /\ \/ /\ move_att.err = "Ok"
          /\ board' = move_att.board
          /\ last' = HostEvent("draw_err", TRUE)
          /\ UNCHANGED << board_legal_moves, host >>
       \/ /\ board' = move_att.board
          /\ board_legal_moves' = IF move_att.err = "Ok"
                                  THEN Some(get_legal_moves(move_att.board))
                                  ELSE board_legal_moves
          /\ host' = [host EXCEPT
                        !.opp_thread =
                            IF host.player_team = move_att.board.active_team
                            THEN None ELSE @,
                        !.queued_move = None]
          /\ last' = HostEvent("draw", move_att.err = "Ok")
       \/ /\ \/ move_att.overflow
             \/ /\ move_att.err = "Ok"
                /\ get_legal_moves_overflows(move_att.board)
          /\ host' = [host EXCEPT !.phase = "Panicked"]
          /\ last' = HostEvent("panic", FALSE)
          /\ UNCHANGED << board, board_legal_moves >>
    /\ ops' = ops + 1
    /\ UNCHANGED << made, pure, ada >>

\* MainState::draw
HostDraw ==
    /\ host.phase = "Running"
    /\ is_some(host.queued_move)
    /\ ops < MaxHostMoves
    /\ DrawQueued(make_move(board, unwrap(host.queued_move)))

NextHost ==
    \/ HostUpdate
    \/ WorkerGetMove
    \/ MouseButtonDown
    \/ MouseButtonUp
    \/ HostDraw

SpecHost == InitHost /\ [][NextHost]_vars

\* The workers that have been spawned and have not finished.
Outstanding ==
    { i \in 1..Len(host.workers) : host.workers[i].state = "running" }

DrawLeftMoveQueued(worker) ==
    /\ worker.state = "sent"
    /\ worker.channel = << >>
    /\ is_some(host.queued_move)
    /\ Returned(host.queued_move) \in worker.outcomes
    /\ make_move(worker.board, unwrap(host.queued_move)).err = "Ok"
    /\ board = make_move(worker.board, unwrap(host.queued_move)).board

\* At most one search worker is outstanding, and while the receiver of a
\* worker is held the board is the board that worker was given, or that
\* board with the move the worker sent made on it by a draw that returned
\* at play_sound.
OneWorkerOrMoveLeftQueued ==
    host.phase = "Running" =>
        /\ Cardinality(Outstanding) <= 1
        /\ is_some(host.opp_thread) =>
               \/ board = host.workers[unwrap(host.opp_thread)].board
               \/ DrawLeftMoveQueued(host.workers[unwrap(host.opp_thread)])

\* ------------------------------------------------------------ piece counts
\* C37: after a successful make_move the team of the piece moved has as
\* many pieces as before, and the other team has one fewer if the target
\* square held one of its pieces and as many as before otherwise.
C37_PieceCounts ==
    (last.op = "make_move" /\ last.err = "Ok") =>
        LET mover == get_square_team(last.before, last.move.start)
            other == opponent(mover)
        IN  /\ piece_count(board, mover) = piece_count(last.before, mover)
            /\ piece_count(board, other) =
                   piece_count(last.before, other)
                       - (IF get_square_team(last.before, last.move.target) = other
                          THEN 1 ELSE 0)

\* -------------------------------------------------------------- turn order
\* C38: after a successful make_move the side to move is the opponent of
\* the team whose piece was moved.
C38_TurnPassesToOpponentOfMover ==
    (last.op = "make_move" /\ last.err = "Ok") =>
        board.active_team =
            opponent(get_square_team(last.before, last.move.start))

\* ------------------------------------------------- arithmetic on the scores
\* C39: the value evaluate_move returns can be multiplied by the sign of
\* the root (-1 for Black) and can have every jitter of -2..2 added without
\* leaving the i32 range, also when the position after the root move has
\* zero or one legal reply.
C39_ScoreArithmeticInRange ==
    last.op = "evaluate_move" =>
        LET sign == root_sign(last.before.active_team)
        IN  /\ ~mul_overflows(last.value, sign)
            /\ \A jiggle \in Jiggles :
                   ~add_overflows(wrapping_mul(last.value, sign), jiggle)

\* ------------------------------------------- the recursion of Matt's search
\* get_move of Matt and the evaluate_move calls below it, one call or return
\* per step.  made is the stack of evaluate_move activations, the innermost
\* last; last holds the locals of get_move; board is the clone the search
\* works on.
MattFens ==
    << FenMateInOne, FenMateInOneBlack, FenCorneredKing, FenSingleMove,
       FenStalemate, FenEnPassant >>

\* The greatest budget Matt is configured with, and the greatest number of
\* evaluate_move activations on the stack.
MaxMattBudget == 2
MaxMattDepth == 4

MattCall(phase, search_budget, legals, index, evals, root, outcome) ==
    [ op |-> "get_move", phase |-> phase, search_budget |-> search_budget,
      legals |-> legals, index |-> index, evals |-> evals,
      root |-> root, outcome |-> outcome ]

InitMatt ==
    \E f \in 1..Len(MattFens) :
        LET built == from_fen(MattFens[f])
        IN  /\ built.err = "Ok"
            /\ board = built.board
            /\ board_legal_moves = None
            /\ made = << >>
            /\ pure = TRUE
            /\ \/ last = MattCall("idle", 0, << >>, 1, << >>, built.board, None)
               \/ /\ built.overflow
                  /\ last = MattCall("returned", 0, << >>, 1, << >>,
                                     built.board, Panicked)
            /\ ops = 0
            /\ ada = AdaIdle
            /\ host = HostIdle

\* evaluate_move from its entry to the test of search_budget: the locals of
\* the activation, move_att being what make_move returned and virtual_board
\* the board after it.  overflow tells that make_move or get_legal_moves
\* overflowed.
evaluate_move_locals(virtual_board, legals_all, ava_move, search_budget, best_white, best_black, who_to_play, overflow) ==
    [ ava_move |-> ava_move, search_budget |-> search_budget,
      best_white |-> best_white, best_black |-> best_black,
      white |-> virtual_board.active_team = White,
      acc |-> IF virtual_board.active_team = White THEN I32_MIN ELSE I32_MAX,
      legals |-> prune_moves_for_team(virtual_board, legals_all,
                                      virtual_board.active_team),
      index |-> 1, broke |-> FALSE,
      eval_score |-> eval_score(virtual_board, ava_move, who_to_play),
      overflow |-> overflow \/ move_list_overflows(legals_all) ]

evaluate_move_entered(move_att, ava_move, search_budget, best_white, best_black, who_to_play) ==
    evaluate_move_locals(move_att.board, get_legal_moves(move_att.board),
                         ava_move, search_budget, best_white, best_black,
                         who_to_play, move_att.overflow)

\* The activation is at its return: the leaf case, a break, or the end of
\* the loop over the replies.
at_return(frame) ==
    \/ frame.search_budget = 0
    \/ frame.broke
    \/ frame.index > Len(frame.legals)

\* What the activation returns: eval_score + jiggle in the leaf case, max or
\* min after the loop.
returned_value(frame) ==
    IF frame.search_budget = 0 THEN frame.eval_score ELSE frame.acc

\* The body of the loop over the replies after evaluate_move has returned
\* move_score.
loop_body(frame, move_score) ==
    IF frame.white
    THEN [ frame EXCEPT
             !.acc = Max(frame.acc, frame.best_white),
             !.broke = move_score >= frame.best_black,
             !.best_white = IF move_score >= frame.best_black
                            THEN frame.best_white
                            ELSE Max(frame.best_white, move_score),
             !.index = frame.index + 1 ]
    ELSE [ frame EXCEPT
             !.acc = Min(frame.acc, frame.best_black),
             !.broke = move_score <= frame.best_white,
             !.best_black = IF move_score <= frame.best_white
                            THEN frame.best_black
                            ELSE Min(frame.best_black, move_score),
             !.index = frame.index + 1 ]

\* A panic in the worker that runs get_move.
MattPanicked ==
    /\ last' = [ last EXCEPT !.phase = "returned", !.outcome = Panicked ]
    /\ board' = last.root
    /\ made' = << >>

\* The activation is on the stack, or the build with overflow checks has
\* panicked on the way to it.
Pushed(virtual_board, frame) ==
    \/ /\ board' = virtual_board
       /\ made' = Append(made, frame)
       /\ UNCHANGED last
    \/ /\ frame.overflow
       /\ MattPanicked

\* get_move of Matt up to its loop: the single legal move is returned
\* without a search.
MattGetMove ==
    /\ last.phase = "idle"
    /\ \E search_budget \in 0..MaxMattBudget :
         LET legals_all == get_legal_moves(board)
             legals == prune_moves_for_team(board, legals_all,
                                            board.active_team)
         IN  \/ last' = IF Len(legals) = 1
                        THEN MattCall("returned", search_budget, legals, 1,
                                      << >>, board, Returned(Some(legals[1])))
                        ELSE MattCall("searching", search_budget, legals, 1,
                                      << >>, board, None)
             \/ /\ move_list_overflows(legals_all)
                /\ last' = MattCall("returned", search_budget, legals, 1,
                                    << >>, board, Panicked)
    /\ UNCHANGED << board, board_legal_moves, made, pure, ops, ada, host >>

\* The loop of get_move calling evaluate_move on a clone of its board with
\* search_budget - 1.
MattCallsEvaluateMove ==
    /\ last.phase = "searching"
    /\ made = << >>
    /\ last.index <= Len(last.legals)
    /\ LET ava_move == last.legals[last.index]
           move_att == make_move(last.root, ava_move)
       IN  Pushed(move_att.board,
                  evaluate_move_entered(move_att, ava_move,
                                        last.search_budget - 1,
                                        I32_MIN, I32_MAX,
                                        root_sign(last.root.active_team)))
    /\ UNCHANGED << board_legal_moves, pure, ops, ada, host >>

\* evaluate_move calling itself on the next reply with search_budget - 1.
EvaluateMoveRecurses ==
    /\ made # << >>
    /\ Len(made) < MaxMattDepth
    /\ LET frame == made[Len(made)]
       IN  /\ ~at_return(frame)
           /\ LET ava_move == frame.legals[frame.index]
                  move_att == make_move(board, ava_move)
              IN  Pushed(move_att.board,
                         evaluate_move_entered(move_att, ava_move,
                                               frame.search_budget - 1,
                                               frame.best_white, frame.best_black,
                                               root_sign(board.active_team)))
    /\ UNCHANGED << board_legal_moves, pure, ops, ada, host >>

\* evaluate_move returning to evaluate_move: unmake_move, then the rest of
\* the caller's loop body.
EvaluateMoveReturns ==
    /\ Len(made) > 1
    /\ LET frame == made[Len(made)]
           caller == made[Len(made) - 1]
           unmove_att == unmake_move(board, frame.ava_move)
       IN  /\ at_return(frame)
           /\ \/ /\ board' = unmove_att.board
                 /\ made' = [ SubSeq(made, 1, Len(made) - 1) EXCEPT
                                ![Len(made) - 1] =
                                    loop_body(caller, returned_value(frame)) ]
                 /\ UNCHANGED last
              \/ /\ unmove_att.overflow
                 /\ MattPanicked
    /\ UNCHANGED << board_legal_moves, pure, ops, ada, host >>

\* evaluate_move returning to get_move: the clone is dropped, the value is
\* multiplied by the sign of the root and pushed.  The product overflows
\* for i32::MIN and a Black root: a build with overflow checks panics, one
\* without wraps.  The unmake_move that ends evaluate_move can have
\* overflowed as well.
EvaluateMoveReturnsToMatt ==
    /\ Len(made) = 1
    /\ at_return(made[1])
    /\ LET sign == root_sign(last.root.active_team)
           value == returned_value(made[1])
       IN  \/ /\ \/ mul_overflows(value, sign)
                 \/ unmake_move(board, made[1].ava_move).overflow
              /\ last' = [ last EXCEPT !.phase = "returned",
                                       !.outcome = Panicked ]
           \/ last' = [ last EXCEPT
                          !.evals = Append(last.evals, wrapping_mul(value, sign)),
                          !.index = last.index + 1 ]
    /\ board' = last.root
    /\ made' = << >>
    /\ UNCHANGED << board_legal_moves, pure, ops, ada, host >>

\* get_move after its loop: the first entry with the greatest eval, None
\* for an empty list.  tracing::debug! indexes mapped_legals.0[0] when the
\* debug level is enabled, and then panics on an empty list.
MattReturns ==
    /\ last.phase = "searching"
    /\ made = << >>
    /\ last.index > Len(last.legals)
    /\ \E outcome \in
           (IF last.legals = << >> THEN { Returned(None), Panicked }
            ELSE { Returned(Some(last.legals[first_best(last.evals)])) }) :
         last' = [ last EXCEPT !.phase = "returned", !.outcome = outcome ]
    /\ UNCHANGED << board, board_legal_moves, made, pure, ops, ada, host >>

NextMatt ==
    \/ MattGetMove
    \/ MattCallsEvaluateMove
    \/ EvaluateMoveRecurses
    \/ EvaluateMoveReturns
    \/ EvaluateMoveReturnsToMatt
    \/ MattReturns

SpecMatt == InitMatt /\ [][NextMatt]_vars

\* C40: for every configured budget b >= 0, no activation of evaluate_move
\* below Matt's get_move has a negative search_budget, and the number of
\* nested activations is at most b.
C40_BudgetNeverNegative ==
    last.op = "get_move" =>
        /\ \A k \in 1..Len(made) : made[k].search_budget >= 0
        /\ Len(made) <= last.search_budget

====
